---------------------------- MODULE Spec2Model ----------------------------
(***************************************************************************)
(* A model of archivindex's snapshot store: the digest-stable line codec   *)
(* (wxj/src/lines/mod.rs), the store reader and writer                     *)
(* (wxj/src/lines/io.rs) and the Merge command (wxj-cli/src/main.rs).      *)
(*                                                                         *)
(* Texts are sequences of one-character strings, indexed from 0 as in the  *)
(* Rust source through Slice.  An Option is a sequence of length 0 (None)  *)
(* or 1 (Some).  A Result is a record with a tag: "Ok", "Err", or "Panic"  *)
(* where the Rust code aborts on an out-of-range slice.                    *)
(***************************************************************************)
EXTENDS Integers, Sequences, FiniteSets, TLC

VARIABLES
    line,         \* SnapshotLine under test (line codec), as an Option
    text,         \* its serialization, as an Option
    parsed,       \* result of SnapshotLine::parse on text, as an Option
    hasher,       \* bytes fed to the sha1::Sha1 context since its last reset
    validated,    \* result of SnapshotLine::validate, as an Option
    raw,          \* the raw content SnapshotLine::new was given, as an Option
    paths,        \* Merge: the driving list of snapshot_import
    flat_input,   \* Merge: Peekable<SnapshotReader> over flat.ndjson.zst
    data_input,   \* Merge: Peekable<SnapshotReader> over data.ndjson.zst
    flat_output,  \* SnapshotWriter for flat.ndjson.zst
    data_output,  \* SnapshotWriter for data.ndjson.zst
    flat_next,    \* Merge local: digest peeked at the head of flat_input
    data_next,    \* Merge local: digest peeked at the head of data_input
    pc,           \* position in the code of the running command
    idx,          \* Merge: index into paths of the current driving entry
    log,          \* observations kept for the properties (no program state):
                  \* the stores Merge was given, the lines it built from
                  \* files, and the calls made on a writer with their results
    call_input,   \* the argument of the function under test
    call_result,  \* what the function under test returned
    computer,     \* Sha1Computer: the Mutex<Sha1> its clones share
    threads,      \* the threads calling into a shared Sha1Computer
    importer,     \* cas::import::Importer: its stack of open directories
    part_iter     \* DomainNamePartIter: a Surt's label iterator, as an Option

vars == <<line, text, parsed, hasher, validated, raw, paths, flat_input,
          data_input, flat_output, data_output, flat_next, data_next, pc,
          idx, log, call_input, call_result, computer, threads,
          importer, part_iter>>

(***************************************************************************)
(* Characters and text helpers                                             *)
(***************************************************************************)
QUOTE == "\""
BACKSLASH == "\\"
CR == "\r"
LF == "\n"

None == <<>>
Some(x) == <<x>>
IsSome(o) == Len(o) = 1

\* line[a..b] of Rust: bytes a .. b-1, counted from 0.
Slice(s, a, b) == SubSeq(s, a + 1, b)

\* Whether line[a..b] is in range (Rust panics otherwise).
InRange(s, a, b) == a >= 0 /\ a <= b /\ b <= Len(s)

\* line[index..].starts_with(key), for index <= line.len().
StartsWith(s, index, key) ==
    /\ index + Len(key) <= Len(s)
    /\ Slice(s, index, index + Len(key)) = key

RECURSIVE Concat(_)
Concat(ss) == IF ss = <<>> THEN <<>> ELSE Head(ss) \o Concat(Tail(ss))

Reverse(s) == <<>> \o [k \in 1..Len(s) |-> s[Len(s) + 1 - k]]

\* Position of ch in the table tbl, 0 when absent.
IndexOf(tbl, ch) ==
    IF \E k \in 1..Len(tbl) : tbl[k] = ch
    THEN CHOOSE k \in 1..Len(tbl) : tbl[k] = ch
    ELSE 0

Pow2(n) == 2 ^ n

Ok(v) == [tag |-> "Ok", val |-> v]
Err(v) == [tag |-> "Err", val |-> v]
Panic == [tag |-> "Panic", val |-> <<>>]

(***************************************************************************)
(* Sha1Digest: 20 bytes, shown as 32 Base32 characters                     *)
(***************************************************************************)
DIGEST_BYTES == 20
DIGEST_LEN == 32

BASE32 ==
    <<"A", "B", "C", "D", "E", "F", "G", "H", "I", "J", "K", "L", "M", "N",
      "O", "P", "Q", "R", "S", "T", "U", "V", "W", "X", "Y", "Z", "2", "3",
      "4", "5", "6", "7">>

\* Regroup the bit stream of `items` (each of `from` bits, most significant
\* first) into n items of `to` bits, padding with zero bits: item j is cut
\* from the window of three source items that holds its bits.
Regroup(items, from, to, n) ==
    <<>> \o [j \in 1..n |->
        LET a == (to * (j - 1)) \div from
            o == (to * (j - 1)) % from
            at(i) == IF a + i + 1 <= Len(items) THEN items[a + i + 1] ELSE 0
            window == at(0) * Pow2(2 * from) + at(1) * Pow2(from) + at(2)
        IN  (window \div Pow2(3 * from - o - to)) % Pow2(to)]

\* The value of each Base32 symbol.
Base32Value == [ch \in {BASE32[k] : k \in 1..Len(BASE32)} |-> IndexOf(BASE32, ch) - 1]

\* impl Display for Sha1Digest: BASE32.encode of the 20 bytes.
DigestToString(d) ==
    LET v == Regroup(d, 8, 5, DIGEST_LEN) IN <<>> \o [j \in 1..DIGEST_LEN |-> BASE32[v[j] + 1]]

\* impl FromStr for Sha1Digest: 32 characters that Base32-decode to 20 bytes.
DigestFromStr(s) ==
    IF Len(s) # DIGEST_LEN THEN Err("InvalidLength")
    ELSE IF \E j \in 1..Len(s) : s[j] \notin DOMAIN Base32Value THEN Err("Decoding")
    ELSE Ok(Regroup(<<>> \o [j \in 1..DIGEST_LEN |-> Base32Value[s[j]]], 5, 8, DIGEST_BYTES))

\* The derived Ord of Sha1Digest([u8; 20]): byte-lexicographic.
DigestLess(a, b) ==
    \E k \in 1..DIGEST_BYTES :
        /\ a[k] < b[k]
        /\ \A j \in 1..(k - 1) : a[j] = b[j]

(***************************************************************************)
(* Timestamp: the 14 digits of %Y%m%d%H%M%S                                *)
(***************************************************************************)
TIMESTAMP_LEN == 14

DIGITS == <<"0", "1", "2", "3", "4", "5", "6", "7", "8", "9">>

\* Field widths of TIMESTAMP_FMT: year, month, day, hour, minute, second.
TimestampWidths == <<4, 2, 2, 2, 2, 2>>

\* n as w decimal digits, zero-padded.
Digits(n, w) == <<>> \o [k \in 1..w |-> DIGITS[((n \div (10 ^ (w - k))) % 10) + 1]]

\* The number a text of decimal digits denotes.
Number(s) ==
    LET F[k \in 0..Len(s)] ==
            IF k = 0 THEN 0 ELSE 10 * F[k - 1] + (IndexOf(DIGITS, s[k]) - 1)
    IN F[Len(s)]

DaysInMonth(y, m) ==
    IF m \in {4, 6, 9, 11} THEN 30
    ELSE IF m = 2
         THEN (IF (y % 4 = 0 /\ y % 100 # 0) \/ y % 400 = 0 THEN 29 ELSE 28)
         ELSE 31

\* impl Display for Timestamp.
TimestampToString(t) ==
    Concat([k \in 1..6 |-> Digits(t[k], TimestampWidths[k])])

\* impl FromStr for Timestamp.
TimestampFromStr(s) ==
    IF Len(s) # TIMESTAMP_LEN THEN Err("InvalidLength")
    ELSE IF \E k \in 1..Len(s) : IndexOf(DIGITS, s[k]) = 0
         THEN Err("InvalidDateTime")
    ELSE LET t == <<Number(Slice(s, 0, 4)), Number(Slice(s, 4, 6)),
                    Number(Slice(s, 6, 8)), Number(Slice(s, 8, 10)),
                    Number(Slice(s, 10, 12)), Number(Slice(s, 12, 14))>>
         IN IF /\ t[2] \in 1..12
               /\ t[3] \in 1..DaysInMonth(t[1], t[2])
               /\ t[4] < 24 /\ t[5] < 60 /\ t[6] < 60
            THEN Ok(t)
            ELSE Err("InvalidDateTime")

(***************************************************************************)
(* SnapshotLine and its line format                                        *)
(***************************************************************************)
DEFAULT_CLOSING_WHITESPACE == <<CR, CR, LF>>

DIGEST_KEY == <<"d", "i", "g", "e", "s", "t">>
DIGEST_KEY_LEN == Len(DIGEST_KEY)
EXPECTED_DIGEST_KEY ==
    <<"e", "x", "p", "e", "c", "t", "e", "d", "_", "d", "i", "g", "e", "s", "t">>
EXPECTED_DIGEST_KEY_LEN == Len(EXPECTED_DIGEST_KEY)
CLOSING_WHITESPACE_KEY ==
    <<"c", "l", "o", "s", "i", "n", "g", "_", "w", "h", "i", "t", "e", "s", "p",
      "a", "c", "e">>
CLOSING_WHITESPACE_KEY_LEN == Len(CLOSING_WHITESPACE_KEY)
TIMESTAMP_KEY == <<"t", "i", "m", "e", "s", "t", "a", "m", "p">>
TIMESTAMP_KEY_LEN == Len(TIMESTAMP_KEY)
URL_KEY == <<"u", "r", "l">>
URL_KEY_LEN == Len(URL_KEY)
CONTENT_KEY == <<"c", "o", "n", "t", "e", "n", "t">>
CONTENT_KEY_LEN == Len(CONTENT_KEY)

\* struct SnapshotLine.
SnapshotLine(digest, expected_digest, closing_whitespace, timestamp, url, content) ==
    [digest |-> digest, expected_digest |-> expected_digest,
     closing_whitespace |-> closing_whitespace, timestamp |-> timestamp,
     url |-> url, content |-> content]

\* The escaped form Display writes for closing_whitespace: \n and \r tokens,
\* any other character dropped.
EscapeWhitespace(ws) ==
    Concat([k \in 1..Len(ws) |->
        IF ws[k] = LF THEN <<BACKSLASH, "n">>
        ELSE IF ws[k] = CR THEN <<BACKSLASH, "r">>
        ELSE <<>>])

\* "<key>":"<value>",
Field(key, value) ==
    <<QUOTE>> \o key \o <<QUOTE, ":", QUOTE>> \o value \o <<QUOTE, ",">>

\* impl Display for SnapshotLine.
Display(l) ==
    <<"{", QUOTE>> \o DIGEST_KEY \o <<QUOTE, ":", QUOTE>>
        \o DigestToString(l.digest) \o <<QUOTE, ",">>
    \o (IF IsSome(l.expected_digest)
        THEN Field(EXPECTED_DIGEST_KEY, DigestToString(l.expected_digest[1]))
        ELSE <<>>)
    \o (IF IsSome(l.closing_whitespace)
        THEN Field(CLOSING_WHITESPACE_KEY, EscapeWhitespace(l.closing_whitespace[1]))
        ELSE <<>>)
    \o (IF IsSome(l.timestamp)
        THEN Field(TIMESTAMP_KEY, TimestampToString(l.timestamp[1]))
        ELSE <<>>)
    \o (IF IsSome(l.url) THEN Field(URL_KEY, l.url[1]) ELSE <<>>)
    \o <<QUOTE>> \o CONTENT_KEY \o <<QUOTE, ":">> \o l.content \o <<"}">>

(***************************************************************************)
(* SnapshotLine::parse, stage by stage.  index is the cursor of the Rust   *)
(* code.  Each optional field is read by a *Field operator that yields the *)
(* cursor after the field and the value read (None when the key is not at  *)
(* the cursor), or ends the parse (Err, Panic); each ParseAfter* operator   *)
(* takes what the stage before read and runs the next stage.               *)
(***************************************************************************)

\* A field read at the cursor: the cursor after it and its value.
FieldRead(index, val) == Ok([index |-> index, val |-> val])

\* value.parse().map_err(|_| Error::InvalidLine)?, then the cursor moves on.
FieldParsed(index, r) ==
    IF r.tag # "Ok" THEN Err("InvalidLine") ELSE FieldRead(index, Some(r.val))

\* expected_digest: 32 characters after the key, parsed as a digest.
ParseExpectedDigestValue(s, index) ==
    IF ~InRange(s, index, index + DIGEST_LEN) THEN Panic
    ELSE FieldParsed(index + DIGEST_LEN + 3,
                     DigestFromStr(Slice(s, index, index + DIGEST_LEN)))

ExpectedDigestField(s, index0) ==
    IF StartsWith(s, index0, EXPECTED_DIGEST_KEY)
    THEN ParseExpectedDigestValue(s, index0 + EXPECTED_DIGEST_KEY_LEN + 3)
    ELSE FieldRead(index0, None)

\* The closing_whitespace loop: characters at even offsets must be a backslash,
\* those at odd offsets n or r; it ends at the closing quote.
RECURSIVE WhitespaceScan(_, _, _, _, _)
WhitespaceScan(s, index, i, acc, failed) ==
    IF ~InRange(s, index + i, index + i + 1) THEN Panic
    ELSE IF s[index + i + 1] = QUOTE
         THEN Ok([i |-> i, closing_whitespace |-> acc, failed |-> failed])
    ELSE WhitespaceScan(s, index, i + 1,
            IF i % 2 = 1 /\ s[index + i + 1] = "n" THEN Append(acc, LF)
            ELSE IF i % 2 = 1 /\ s[index + i + 1] = "r" THEN Append(acc, CR)
            ELSE acc,
            \/ failed
            \/ (i % 2 = 0 /\ s[index + i + 1] # BACKSLASH)
            \/ (i % 2 = 1 /\ s[index + i + 1] \notin {"n", "r"}))

\* if failed { return Err(InvalidLine) } else { index += i + 3; Some(value) }
ParseClosingWhitespaceValue(index, scan) ==
    IF scan.tag = "Panic" THEN Panic
    ELSE IF scan.val.failed THEN Err("InvalidLine")
    ELSE FieldRead(index + scan.val.i + 3, Some(scan.val.closing_whitespace))

ClosingWhitespaceField(s, index0) ==
    IF index0 > Len(s) THEN Panic
    ELSE IF StartsWith(s, index0, CLOSING_WHITESPACE_KEY)
    THEN ParseClosingWhitespaceValue(
            index0 + CLOSING_WHITESPACE_KEY_LEN + 3,
            WhitespaceScan(s, index0 + CLOSING_WHITESPACE_KEY_LEN + 3, 0, <<>>, FALSE))
    ELSE FieldRead(index0, None)

\* timestamp: 14 characters after the key, parsed as a timestamp.
ParseTimestampValue(s, index) ==
    IF ~InRange(s, index, index + TIMESTAMP_LEN) THEN Panic
    ELSE FieldParsed(index + TIMESTAMP_LEN + 3,
                     TimestampFromStr(Slice(s, index, index + TIMESTAMP_LEN)))

TimestampField(s, index0) ==
    IF index0 > Len(s) THEN Panic
    ELSE IF StartsWith(s, index0, TIMESTAMP_KEY)
    THEN ParseTimestampValue(s, index0 + TIMESTAMP_KEY_LEN + 3)
    ELSE FieldRead(index0, None)

\* The url loop: counts characters up to the closing quote; failed is set once
\* the cursor reaches the end of the line, and the next test of the loop
\* condition then slices past the end.
RECURSIVE UrlScan(_, _, _, _)
UrlScan(s, index, i, failed) ==
    IF ~InRange(s, index + i, index + i + 1) THEN Panic
    ELSE IF s[index + i + 1] = QUOTE THEN Ok([i |-> i, failed |-> failed])
    ELSE UrlScan(s, index, i + 1, failed \/ (index + i + 1 >= Len(s)))

\* The url value: the cursor is advanced past the field before the value is
\* sliced, as in the source (index += i + 3; line[index..index + i]).
UrlValue(s, index, i) == Slice(s, index + i + 3, index + i + 3 + i)

\* if failed { return Err(InvalidLine) } else { index += i + 3;
\* Some(line[index..index + i]) }
ParseUrlValue(s, index, scan) ==
    IF scan.tag = "Panic" THEN Panic
    ELSE IF scan.val.failed THEN Err("InvalidLine")
    ELSE IF ~InRange(s, index + scan.val.i + 3, index + 2 * scan.val.i + 3) THEN Panic
    ELSE FieldRead(index + scan.val.i + 3, Some(UrlValue(s, index, scan.val.i)))

UrlField(s, index0) ==
    IF index0 > Len(s) THEN Panic
    ELSE IF StartsWith(s, index0, URL_KEY)
    THEN ParseUrlValue(s, index0 + URL_KEY_LEN + 3,
                       UrlScan(s, index0 + URL_KEY_LEN + 3, 0, FALSE))
    ELSE FieldRead(index0, None)

\* content: index += CONTENT_KEY_LEN + 2; line[index..line.len() - 1].
ParseContent(s, index0, digest, expected_digest, closing_whitespace, timestamp, url) ==
    IF ~InRange(s, index0 + CONTENT_KEY_LEN + 2, Len(s) - 1) THEN Panic
    ELSE Ok(SnapshotLine(digest, expected_digest, closing_whitespace, timestamp,
                         url, Slice(s, index0 + CONTENT_KEY_LEN + 2, Len(s) - 1)))

ParseAfterUrl(s, digest, expected_digest, closing_whitespace, timestamp, u) ==
    IF u.tag # "Ok" THEN u
    ELSE ParseContent(s, u.val.index, digest, expected_digest, closing_whitespace,
                      timestamp, u.val.val)

ParseAfterTimestamp(s, digest, expected_digest, closing_whitespace, t) ==
    IF t.tag # "Ok" THEN t
    ELSE ParseAfterUrl(s, digest, expected_digest, closing_whitespace, t.val.val,
                       UrlField(s, t.val.index))

ParseAfterClosingWhitespace(s, digest, expected_digest, w) ==
    IF w.tag # "Ok" THEN w
    ELSE ParseAfterTimestamp(s, digest, expected_digest, w.val.val,
                             TimestampField(s, w.val.index))

ParseAfterExpectedDigest(s, digest, e) ==
    IF e.tag # "Ok" THEN e
    ELSE ParseAfterClosingWhitespace(s, digest, e.val.val,
                                     ClosingWhitespaceField(s, e.val.index))

\* let digest = line[index..index + DIGEST_LEN].parse()?;
\* if line.len() >= index + 2 { .. } else { Err(InvalidLine) }
ParseAfterDigest(s, index, d) ==
    IF d.tag # "Ok" THEN Err("InvalidLine")
    ELSE IF Len(s) >= index + DIGEST_LEN + 3 + 2
         THEN ParseAfterExpectedDigest(s, d.val,
                                       ExpectedDigestField(s, index + DIGEST_LEN + 3))
         ELSE Err("InvalidLine")

\* SnapshotLine::parse.
Parse(s) ==
    IF ~InRange(s, DIGEST_KEY_LEN + 5, DIGEST_KEY_LEN + 5 + DIGEST_LEN) THEN Panic
    ELSE ParseAfterDigest(s, DIGEST_KEY_LEN + 5,
            DigestFromStr(Slice(s, DIGEST_KEY_LEN + 5, DIGEST_KEY_LEN + 5 + DIGEST_LEN)))

(***************************************************************************)
(* SHA-1.  The sha1 crate is outside the repository; the model keeps what  *)
(* the code relies on: the context accumulates the bytes fed to it, and    *)
(* the digest is a function of exactly those bytes with no collisions.     *)
(* Here the digest packs the bytes, last byte first, as 5-bit codes, which *)
(* is injective on texts over HashAlphabet of up to 32 bytes.              *)
(***************************************************************************)
HashAlphabet ==
    <<"{", "}", QUOTE, ":", "_", CR, LF, "a", "c", "d", "e", "r", "t", "x",
      "1", "2", "3">>

HashCode == [ch \in {HashAlphabet[k] : k \in 1..Len(HashAlphabet)} |->
                IndexOf(HashAlphabet, ch)]

Sha1(bytes) ==
    LET codes == <<>> \o [j \in 1..Len(bytes) |-> HashCode[bytes[Len(bytes) + 1 - j]]]
    IN  Regroup(codes, 5, 8, DIGEST_BYTES)

\* hasher.update(bytes)
HasherUpdate(h, bytes) == h \o bytes

\* A finalize that leaves in the context what was fed to it.
HasherFinalizeKeeps(h) == [digest |-> Sha1(h), hasher |-> h]

\* hasher.finalize_reset(): the digest of what was fed; the context is reset.
HasherFinalizeReset(h) == [digest |-> Sha1(h), hasher |-> <<>>]

(***************************************************************************)
(* SnapshotLine::new and SnapshotLine::validate                            *)
(***************************************************************************)
IsLineBreak(ch) == ch = CR \/ ch = LF

\* content.chars().rev().take_while(|ch| *ch == '\r' || *ch == '\n').collect():
\* the trailing CR/LF run, collected from the last character backwards.
RECURSIVE RevTakeWhileLineBreak(_)
RevTakeWhileLineBreak(c) ==
    IF c = <<>> \/ ~IsLineBreak(c[Len(c)]) THEN <<>>
    ELSE <<c[Len(c)]>> \o RevTakeWhileLineBreak(SubSeq(c, 1, Len(c) - 1))

\* The closing_whitespace SnapshotLine::new chooses; Panic where the index
\* arithmetic on bytes.len() leaves the content.
NewClosingWhitespace(c) ==
    IF Len(c) < 3 THEN Panic
    ELSE IF Slice(c, Len(c) - 3, Len(c)) = DEFAULT_CLOSING_WHITESPACE
         THEN IF Len(c) < 4 THEN Panic
              ELSE IF ~IsLineBreak(c[Len(c) - 3]) THEN Ok(None)
              ELSE Ok(Some(RevTakeWhileLineBreak(c)))
         ELSE Ok(Some(RevTakeWhileLineBreak(c)))

\* The content SnapshotLine::new keeps: the raw content less the length of the
\* recorded closing_whitespace, and less nothing when none is recorded.
NewContent(c, closing_whitespace) ==
    Slice(c, 0, Len(c) - (IF IsSome(closing_whitespace)
                          THEN Len(closing_whitespace[1]) ELSE 0))

\* SnapshotLine::new(digest, content).
NewWith(digest, c, cw) ==
    IF cw.tag # "Ok" THEN Panic
    ELSE Ok(SnapshotLine(digest, None, cw.val, None, None, NewContent(c, cw.val)))

New(digest, c) == NewWith(digest, c, NewClosingWhitespace(c))

\* The trailer validate feeds after the content.
ValidateTrailer(l) ==
    IF IsSome(l.closing_whitespace)
    THEN SelectSeq(l.closing_whitespace[1], IsLineBreak)
    ELSE DEFAULT_CLOSING_WHITESPACE

\* SnapshotLine::validate(&self, hasher): the result and the hasher it leaves.
ValidateResult(l, fin) ==
    [result |-> IF fin.digest = l.digest THEN Ok(<<>>) ELSE Err(fin.digest),
     hasher |-> fin.hasher]

Validate(l, h) ==
    ValidateResult(l, HasherFinalizeReset(
        HasherUpdate(HasherUpdate(h, l.content), ValidateTrailer(l))))

(***************************************************************************)
(* The values the model draws its inputs from                              *)
(***************************************************************************)
FLAT_PREFIX ==
    <<"{", QUOTE, "c", "r", "e", "a", "t", "e", "d", "_", "a", "t", QUOTE, ":">>
DATA_PREFIX == <<"{", QUOTE, "d", "a", "t", "a", QUOTE, ":">>
OTHER_PREFIX == <<"{", QUOTE, "x", QUOTE, ":">>

\* A one-line JSON payload of the given shape.
Payload(prefix, n) == prefix \o <<DIGITS[n + 1], "}">>

\* Trailers of raw contents: the default one, nonstandard CR/LF runs, the
\* default one after a line break, and none.
Trailers == {<<CR, CR, LF>>, <<LF>>, <<CR, LF>>, <<LF, CR, CR, LF>>, <<>>}

\* Raw contents given to SnapshotLine::new, some shorter than 4 bytes.
RawContents ==
    {Payload(p, 1) \o t : p \in {FLAT_PREFIX, DATA_PREFIX}, t \in Trailers}
        \cup {<<CR, CR, LF>>, <<"1", LF>>, <<"1", CR, LF>>}

Timestamps == {<<2018, 5, 25, 1, 2, 3>>, <<2024, 2, 29, 23, 59, 59>>}

Urls == {<<>>, <<"h", "t", "t", "p", ":", "/", "/", "a", ".", "c", "o">>,
         <<"c", "o", "n">>}

(***************************************************************************)
(* The line codec as a state machine: a line is built by SnapshotLine::new *)
(* from raw content and its SHA-1, may be given metadata (the public       *)
(* fields, as hacks/src/main.rs sets them), is validated, serialized and   *)
(* parsed back.                                                            *)
(***************************************************************************)
CallIdle ==
    /\ call_input = <<>> /\ call_result = <<>> /\ computer = <<>> /\ threads = <<>>
    /\ importer = <<>> /\ part_iter = <<>>

CallUnchanged == UNCHANGED <<call_input, call_result, computer, threads, importer, part_iter>>

MergeIdle ==
    /\ CallIdle
    /\ paths = <<>> /\ flat_input = <<>> /\ data_input = <<>>
    /\ flat_output = [last_written |-> None, underlying |-> <<>>, finished |-> 0]
    /\ data_output = [last_written |-> None, underlying |-> <<>>, finished |-> 0]
    /\ flat_next = None /\ data_next = None /\ idx = 0
    /\ log = [flat_store |-> <<>>, data_store |-> <<>>, fresh |-> <<>>, calls |-> <<>>]

MergeUnchanged ==
    /\ CallUnchanged
    /\ UNCHANGED <<paths, flat_input, data_input, flat_output, data_output,
                   flat_next, data_next, idx, log>>

LineInit ==
    /\ line = None /\ text = None /\ parsed = None /\ validated = None
    /\ raw = None /\ hasher = <<>>
    /\ pc = "start"
    /\ MergeIdle

\* let line = SnapshotLine::new(sha1(content), content)
LineNew ==
    /\ pc = "start"
    /\ \E c \in RawContents :
        LET built == New(Sha1(c), c) IN
        /\ raw' = Some(c)
        /\ IF built.tag = "Ok"
           THEN line' = Some(built.val) /\ pc' = "built"
           ELSE line' = None /\ pc' = "panicked"
    /\ UNCHANGED <<text, parsed, validated, hasher>>
    /\ MergeUnchanged

\* snapshot_line.expected_digest = ..; .timestamp = ..; .url = ..
LineSetMetadata ==
    /\ pc = "built"
    /\ \E e \in {None, Some(Sha1(<<"x">>))}, t \in {None} \cup {Some(x) : x \in Timestamps},
          u \in {None} \cup {Some(x) : x \in Urls} :
        line' = Some([line[1] EXCEPT !.expected_digest = e, !.timestamp = t, !.url = u])
    /\ pc' = "annotated"
    /\ UNCHANGED <<text, parsed, validated, hasher, raw>>
    /\ MergeUnchanged

\* line.validate(&mut hasher)
LineValidate ==
    /\ pc \in {"built", "annotated"}
    /\ validated = None
    /\ LET v == Validate(line[1], hasher) IN
        /\ validated' = Some(v.result)
        /\ hasher' = v.hasher
    /\ UNCHANGED <<line, text, parsed, raw, pc>>
    /\ MergeUnchanged

\* let text = line.to_string()
LineSerialize ==
    /\ pc \in {"built", "annotated"}
    /\ text' = Some(Display(line[1]))
    /\ pc' = "serialized"
    /\ UNCHANGED <<line, parsed, validated, hasher, raw>>
    /\ MergeUnchanged

\* SnapshotLine::parse(&text)
LineParse ==
    /\ pc = "serialized"
    /\ parsed' = Some(Parse(text[1]))
    /\ pc' = "parsed"
    /\ UNCHANGED <<line, text, validated, hasher, raw>>
    /\ MergeUnchanged

LineNext == LineNew \/ LineSetMetadata \/ LineValidate \/ LineSerialize \/ LineParse

SpecLine == LineInit /\ [][LineNext]_vars

(***************************************************************************)
(* SnapshotReader and SnapshotWriter (wxj/src/lines/io.rs)                 *)
(*                                                                         *)
(* A reader is the sequence of the items its Lines iterator has yet to     *)
(* yield: Ok(text of one line) or Err for an I/O error.  Parsing is pure,  *)
(* so what Peekable caches is the parse of the head.  A writer is its      *)
(* last_written digest, the lines written to underlying (each followed by  *)
(* the line break of writeln!) and the number of calls of finish.          *)
(***************************************************************************)

\* SnapshotReader::next: None at the end, else the head's parse.
ReaderNext(input) ==
    IF input = <<>> THEN None
    ELSE IF Head(input).tag = "Err" THEN Some(Err("Io"))
    ELSE Some(Parse(Head(input).val))

\* input.peek().and_then(|result| result.as_ref().ok()).map(|s| s.digest);
\* Panic when parsing the head panics.
PeekedDigest(next) ==
    IF next = None THEN Ok(None)
    ELSE IF next[1].tag = "Panic" THEN Panic
    ELSE IF next[1].tag = "Ok" THEN Ok(Some(next[1].val.digest))
    ELSE Ok(None)

PeekDigest(input) == PeekedDigest(ReaderNext(input))

\* SnapshotWriter::create.
WriterCreate == [last_written |-> None, underlying |-> <<>>, finished |-> 0]

\* write_snapshot without the update of last_written.
WriteSnapshotForgetsLast(w, l, io_ok) ==
    IF Some(l.digest) = w.last_written THEN [writer |-> w, result |-> "false"]
    ELSE IF ~io_ok THEN [writer |-> w, result |-> "Err"]
    ELSE [writer |-> [w EXCEPT !.underlying = Append(@, Display(l))],
          result |-> "true"]

\* SnapshotWriter::write_snapshot; io_ok is whether writeln! succeeds.
WriteSnapshot(w, l, io_ok) ==
    IF Some(l.digest) = w.last_written THEN [writer |-> w, result |-> "false"]
    ELSE IF ~io_ok THEN [writer |-> w, result |-> "Err"]
    ELSE [writer |-> [w EXCEPT !.underlying = Append(@, Display(l)),
                               !.last_written = Some(l.digest)],
          result |-> "true"]

\* The second half of SnapshotWriter::write: the line SnapshotLine::new built
\* is written with writeln!.
WriteBuilt(w, built, io_ok) ==
    IF built.tag # "Ok" THEN [writer |-> w, result |-> "Panic"]
    ELSE IF ~io_ok THEN [writer |-> w, result |-> "Err"]
    ELSE [writer |-> [w EXCEPT !.underlying = Append(@, Display(built.val)),
                               !.last_written = Some(built.val.digest)],
          result |-> "true"]

\* SnapshotWriter::write; the content is read from memory, so only
\* SnapshotLine::new (a panic) and writeln! (an I/O error) can fail.
Write(w, digest, content, io_ok) ==
    IF Some(digest) = w.last_written THEN [writer |-> w, result |-> "false"]
    ELSE WriteBuilt(w, New(digest, content), io_ok)

\* finish that leaves the encoder unfinished.
FinishNothing(w) == w

\* SnapshotWriter::finish.
Finish(w) == [w EXCEPT !.finished = @ + 1]

(***************************************************************************)
(* Command::Merge (wxj-cli/src/main.rs), one action per step of its loops  *)
(***************************************************************************)
WHITESPACE == {" ", "\t", CR, LF}

\* str::trim: without leading and trailing whitespace.
RECURSIVE Trim(_)
Trim(c) ==
    IF c = <<>> THEN c
    ELSE IF Head(c) \in WHITESPACE THEN Trim(Tail(c))
    ELSE IF c[Len(c)] \in WHITESPACE THEN Trim(SubSeq(c, 1, Len(c) - 1))
    ELSE c

\* trimmed.contains(['\n', '\r'])
ContainsLineBreak(c) == \E k \in 1..Len(c) : IsLineBreak(c[k])

\* The store a new file's content is routed to by its literal prefix:
\* "flat", "data", or "skip" (unknown shape, or not a single line).
Classify(content) ==
    IF ContainsLineBreak(Trim(content)) THEN "skip"
    ELSE IF StartsWith(content, 0, FLAT_PREFIX) THEN "flat"
    ELSE IF StartsWith(content, 0, DATA_PREFIX) THEN "data"
    ELSE "skip"

\* The while condition of the drain loops: next.map(|d| d < digest).unwrap_or(false)
DrainConditionSkipsDrain(next, digest) == FALSE
DrainCondition(next, digest) == IsSome(next) /\ DigestLess(next[1], digest)

\* let snapshot = input.next().unwrap()?; output.write_snapshot(&snapshot)?;
\* for a reader that is not at its end.
CopyWritten(input, output, wr) ==
    IF wr.result = "Err"
    THEN [pc |-> "err_io", input |-> input, output |-> output]
    ELSE [pc |-> "ok", input |-> Tail(input), output |-> wr.writer]

\* The copy with a line that fails to parse skipped instead of returned.
CopyItemSkipsErr(input, output, item, io_ok) ==
    IF item.tag = "Panic" THEN [pc |-> "panicked", input |-> input, output |-> output]
    ELSE IF item.tag = "Err" THEN [pc |-> "ok", input |-> Tail(input), output |-> output]
    ELSE CopyWritten(input, output, WriteSnapshot(output, item.val, io_ok))

CopyItem(input, output, item, io_ok) ==
    IF item.tag = "Panic" THEN [pc |-> "panicked", input |-> input, output |-> output]
    ELSE IF item.tag = "Err" THEN [pc |-> "err_line", input |-> input, output |-> output]
    ELSE CopyWritten(input, output, WriteSnapshot(output, item.val, io_ok))

CopyThrough(input, output, io_ok) ==
    CopyItem(input, output, ReaderNext(input)[1], io_ok)

LineUnchanged ==
    /\ CallUnchanged
    /\ UNCHANGED <<line, text, parsed, hasher, validated, raw>>

\* for (digest, path, _) in paths { let mut flat_next = ..; let mut data_next = ..;
MergeLoop ==
    /\ pc = "m_loop"
    /\ IF idx > Len(paths)
       THEN pc' = "m_flush_flat" /\ UNCHANGED <<flat_next, data_next>>
       ELSE \E f \in {PeekDigest(flat_input)}, d \in {PeekDigest(data_input)} :
                IF f.tag = "Panic" \/ d.tag = "Panic"
                THEN pc' = "panicked" /\ UNCHANGED <<flat_next, data_next>>
                ELSE /\ flat_next' = f.val
                     /\ data_next' = d.val
                     /\ pc' = "m_drain_flat"
    /\ UNCHANGED <<paths, flat_input, data_input, flat_output, data_output, idx, log>>
    /\ LineUnchanged

\* while flat_next < digest { copy the head of flat_input through; peek again }
MergeDrainFlat ==
    /\ pc = "m_drain_flat"
    /\ IF DrainCondition(flat_next, paths[idx].digest)
       THEN \E io_ok \in BOOLEAN :
            \E r \in {CopyThrough(flat_input, flat_output, io_ok)} :
            \E f \in {PeekDigest(r.input)} :
                /\ flat_input' = r.input
                /\ flat_output' = r.output
                /\ IF r.pc # "ok" THEN pc' = r.pc /\ UNCHANGED flat_next
                   ELSE IF f.tag = "Panic" THEN pc' = "panicked" /\ UNCHANGED flat_next
                   ELSE flat_next' = f.val /\ UNCHANGED pc
       ELSE pc' = "m_drain_data" /\ UNCHANGED <<flat_input, flat_output, flat_next>>
    /\ UNCHANGED <<paths, data_input, data_output, data_next, idx, log>>
    /\ LineUnchanged

\* while data_next < digest { copy the head of data_input through; peek again }
MergeDrainData ==
    /\ pc = "m_drain_data"
    /\ IF DrainCondition(data_next, paths[idx].digest)
       THEN \E io_ok \in BOOLEAN :
            \E r \in {CopyThrough(data_input, data_output, io_ok)} :
            \E d \in {PeekDigest(r.input)} :
                /\ data_input' = r.input
                /\ data_output' = r.output
                /\ IF r.pc # "ok" THEN pc' = r.pc /\ UNCHANGED data_next
                   ELSE IF d.tag = "Panic" THEN pc' = "panicked" /\ UNCHANGED data_next
                   ELSE data_next' = d.val /\ UNCHANGED pc
       ELSE pc' = "m_match" /\ UNCHANGED <<data_input, data_output, data_next>>
    /\ UNCHANGED <<paths, flat_input, flat_output, flat_next, idx, log>>
    /\ LineUnchanged

\* What the body's last statement does with the driving entry:
\* "copy_flat", "copy_data", "read_failed", or the Classify of the file read.
MatchBranch(fnext, dnext, entry) ==
    IF fnext = Some(entry.digest) THEN "copy_flat"
    ELSE IF dnext = Some(entry.digest) THEN "copy_data"
    ELSE IF entry.file.tag = "Err" THEN "read_failed"
    ELSE Classify(entry.file.val)

\* The record log.fresh keeps of a line written by SnapshotWriter::write.
Fresh(store, entry) == [store |-> store, digest |-> entry.digest, content |-> entry.file.val]

\* What the last statement of the loop body does to the stores: the step it
\* ends in ("ok" or how it fails), the readers and writers it leaves, and the
\* store a fresh line went to ("none" when no line was written from a file).
MatchOutcome(pc_, fi, di, fo, do, fresh) ==
    [pc |-> pc_, flat_input |-> fi, data_input |-> di,
     flat_output |-> fo, data_output |-> do, fresh |-> fresh]

MatchCopied(store, r, fi, di, fo, do) ==
    IF store = "flat" THEN MatchOutcome(r.pc, r.input, di, r.output, do, "none")
    ELSE MatchOutcome(r.pc, fi, r.input, fo, r.output, "none")

MatchWritten(store, wr, fi, di, fo, do) ==
    MatchOutcome(IF wr.result = "Err" THEN "err_io"
                 ELSE IF wr.result = "Panic" THEN "panicked" ELSE "ok",
                 fi, di,
                 IF store = "flat" THEN wr.writer ELSE fo,
                 IF store = "data" THEN wr.writer ELSE do,
                 IF wr.result = "true" THEN store ELSE "none")

\* The step with a file that cannot be read ending the run, as `?` would.
MatchStepAbortsOnReadError(branch, entry, fi, di, fo, do, io_ok) ==
    IF branch = "read_failed" THEN MatchOutcome("err_io", fi, di, fo, do, "none")
    ELSE IF branch = "copy_flat"
    THEN MatchCopied("flat", CopyThrough(fi, fo, io_ok), fi, di, fo, do)
    ELSE IF branch = "copy_data"
    THEN MatchCopied("data", CopyThrough(di, do, io_ok), fi, di, fo, do)
    ELSE IF branch = "flat"
    THEN MatchWritten("flat", Write(fo, entry.digest, entry.file.val, io_ok),
                      fi, di, fo, do)
    ELSE IF branch = "data"
    THEN MatchWritten("data", Write(do, entry.digest, entry.file.val, io_ok),
                      fi, di, fo, do)
    ELSE MatchOutcome("ok", fi, di, fo, do, "none")

MatchStep(branch, entry, fi, di, fo, do, io_ok) ==
    IF branch = "copy_flat"
    THEN MatchCopied("flat", CopyThrough(fi, fo, io_ok), fi, di, fo, do)
    ELSE IF branch = "copy_data"
    THEN MatchCopied("data", CopyThrough(di, do, io_ok), fi, di, fo, do)
    ELSE IF branch = "flat"
    THEN MatchWritten("flat", Write(fo, entry.digest, entry.file.val, io_ok),
                      fi, di, fo, do)
    ELSE IF branch = "data"
    THEN MatchWritten("data", Write(do, entry.digest, entry.file.val, io_ok),
                      fi, di, fo, do)
    ELSE MatchOutcome("ok", fi, di, fo, do, "none")

\* if flat_next == Some(digest) { copy } else if data_next == Some(digest) { copy }
\* else { read the file; write a new line to the store of its shape }
MergeMatch ==
    /\ pc = "m_match"
    /\ \E io_ok \in BOOLEAN :
       \E m \in {MatchStep(MatchBranch(flat_next, data_next, paths[idx]), paths[idx],
                           flat_input, data_input, flat_output, data_output, io_ok)} :
            /\ flat_input' = m.flat_input
            /\ data_input' = m.data_input
            /\ flat_output' = m.flat_output
            /\ data_output' = m.data_output
            /\ log' = IF m.fresh = "none" THEN log
                      ELSE [log EXCEPT !.fresh = Append(@, Fresh(m.fresh, paths[idx]))]
            /\ IF m.pc = "ok" THEN idx' = idx + 1 /\ pc' = "m_loop"
               ELSE pc' = m.pc /\ UNCHANGED idx
    /\ UNCHANGED <<paths, flat_next, data_next>>
    /\ LineUnchanged

\* for snapshot_line in flat_input { flat_output.write_snapshot(&snapshot_line?)?; }
MergeFlushFlat ==
    /\ pc = "m_flush_flat"
    /\ IF flat_input = <<>>
       THEN pc' = "m_flush_data" /\ UNCHANGED <<flat_input, flat_output>>
       ELSE \E io_ok \in BOOLEAN :
            \E r \in {CopyThrough(flat_input, flat_output, io_ok)} :
            /\ flat_input' = r.input
            /\ flat_output' = r.output
            /\ IF r.pc = "ok" THEN UNCHANGED pc ELSE pc' = r.pc
    /\ UNCHANGED <<paths, data_input, data_output, flat_next, data_next, idx, log>>
    /\ LineUnchanged

\* for snapshot_line in data_input { data_output.write_snapshot(&snapshot_line?)?; }
MergeFlushData ==
    /\ pc = "m_flush_data"
    /\ IF data_input = <<>>
       THEN pc' = "m_finish_flat" /\ UNCHANGED <<data_input, data_output>>
       ELSE \E io_ok \in BOOLEAN :
            \E r \in {CopyThrough(data_input, data_output, io_ok)} :
            /\ data_input' = r.input
            /\ data_output' = r.output
            /\ IF r.pc = "ok" THEN UNCHANGED pc ELSE pc' = r.pc
    /\ UNCHANGED <<paths, flat_input, flat_output, flat_next, data_next, idx, log>>
    /\ LineUnchanged

\* flat_output.finish()?;
MergeFinishFlat ==
    /\ pc = "m_finish_flat"
    /\ flat_output' = Finish(flat_output)
    /\ \E io_ok \in BOOLEAN : pc' = IF io_ok THEN "m_finish_data" ELSE "err_io"
    /\ UNCHANGED <<paths, flat_input, data_input, data_output, flat_next, data_next,
                   idx, log>>
    /\ LineUnchanged

\* data_output.finish()?;  Ok(())
MergeFinishData ==
    /\ pc = "m_finish_data"
    /\ data_output' = Finish(data_output)
    /\ \E io_ok \in BOOLEAN : pc' = IF io_ok THEN "done" ELSE "err_io"
    /\ UNCHANGED <<paths, flat_input, data_input, flat_output, flat_next, data_next,
                   idx, log>>
    /\ LineUnchanged

MergeNext ==
    \/ MergeLoop \/ MergeDrainFlat \/ MergeDrainData \/ MergeMatch
    \/ MergeFlushFlat \/ MergeFlushData \/ MergeFinishFlat \/ MergeFinishData

(***************************************************************************)
(* The inputs of Merge: two existing stores and the driving list           *)
(***************************************************************************)
MaxStore == 2
MaxPaths == 2

\* A line of an existing store as the format defines it: the digest is the
\* SHA-1 of the payload followed by the trailer, and closing_whitespace holds
\* the trailer unless it is the default one.
StoredLine(payload, trailer, expected_digest, timestamp, url) ==
    SnapshotLine(Sha1(payload \o trailer), expected_digest,
                 IF trailer = DEFAULT_CLOSING_WHITESPACE THEN None ELSE Some(trailer),
                 timestamp, url, payload)

ExampleUrl == <<"h", "t", "t", "p", ":", "/", "/", "a", ".", "c", "o">>

\* A line whose digest text is not Base32: SnapshotLine::parse returns InvalidLine.
InvalidLineText ==
    <<"{", QUOTE>> \o DIGEST_KEY \o <<QUOTE, ":", QUOTE>>
        \o [k \in 1..DIGEST_LEN |-> "!"] \o <<QUOTE, ",">>
        \o <<QUOTE>> \o CONTENT_KEY \o <<QUOTE, ":">> \o <<"1", "}">>

\* What the Lines iterator of flat.ndjson.zst may yield.
FlatItems ==
    {Ok(Display(StoredLine(Payload(FLAT_PREFIX, 1), <<CR, CR, LF>>, None, None, None))),
     Ok(Display(StoredLine(Payload(FLAT_PREFIX, 2), <<CR, CR, LF>>,
                           Some(Sha1(<<"x">>)), Some(<<2018, 5, 25, 1, 2, 3>>),
                           Some(ExampleUrl)))),
     Ok(InvalidLineText)}

\* What the Lines iterator of data.ndjson.zst may yield.
DataItems ==
    {Ok(Display(StoredLine(Payload(DATA_PREFIX, 1), <<CR, CR, LF>>, None, None, None))),
     Ok(Display(StoredLine(Payload(DATA_PREFIX, 2), <<LF>>, None, None, None))),
     Err(<<>>)}

\* The digests of the items of a store that parse, in store order.
RECURSIVE StoreDigests(_)
StoreDigests(items) ==
    IF items = <<>> THEN <<>>
    ELSE LET next == ReaderNext(items)[1] IN
         (IF next.tag = "Ok" THEN <<next.val.digest>> ELSE <<>>)
            \o StoreDigests(Tail(items))

StrictlyAscending(ds) == \A k \in 1..(Len(ds) - 1) : DigestLess(ds[k], ds[k + 1])

\* Whether the reader fails at this item (an I/O error, or a line that does
\* not parse).
Fails(item) == ReaderNext(<<item>>)[1].tag # "Ok"

\* The stores of at most MaxStore items whose digests strictly ascend, with at
\* most one item the reader fails at: Merge returns at the first one.
Stores(items) ==
    {s \in UNION {[1..k -> items] : k \in 0..MaxStore} :
        /\ StrictlyAscending(StoreDigests(s))
        /\ Cardinality({k \in 1..Len(s) : Fails(s[k])}) <= 1}

\* A file found by the importer: the digest its name encodes, and what
\* std::fs::read_to_string returns for it.
File(digest, file) == [digest |-> digest, file |-> file]

HonestFile(content) == File(Sha1(content), Ok(content))

Files ==
    {HonestFile(Payload(FLAT_PREFIX, 1) \o <<CR, CR, LF>>),
     HonestFile(Payload(FLAT_PREFIX, 3) \o <<CR, LF>>),
     HonestFile(Payload(DATA_PREFIX, 1) \o <<CR, CR, LF>>),
     HonestFile(Payload(OTHER_PREFIX, 1) \o <<LF>> \o Payload(FLAT_PREFIX, 1) \o <<LF>>),
     \* a file whose bytes are not what its name says
     File(Sha1(Payload(FLAT_PREFIX, 1) \o <<CR, CR, LF>>),
          Ok(Payload(DATA_PREFIX, 3) \o <<CR, CR, LF>>)),
     \* a file that cannot be read
     File(Sha1(Payload(DATA_PREFIX, 2) \o <<LF>>), Err(<<>>))}

\* snapshot_import: the files found, sorted by digest (a stable sort: files of
\* one digest stay in the order of the walk).
DrivingLists ==
    {s \in UNION {[1..k -> Files] : k \in 0..MaxPaths} :
        \A i, j \in 1..Len(s) : i < j => ~DigestLess(s[j].digest, s[i].digest)}

MergeInit ==
    /\ line = None /\ text = None /\ parsed = None /\ validated = None
    /\ raw = None /\ hasher = <<>>
    /\ paths \in DrivingLists
    /\ flat_input \in Stores(FlatItems)
    /\ data_input \in Stores(DataItems)
    /\ flat_output = WriterCreate
    /\ data_output = WriterCreate
    /\ flat_next = None /\ data_next = None
    /\ idx = 1
    /\ pc = "m_loop"
    /\ CallIdle
    /\ log = [flat_store |-> flat_input, data_store |-> data_input, fresh |-> <<>>,
              calls |-> <<>>]

SpecMerge == MergeInit /\ [][MergeNext]_vars

(***************************************************************************)
(* A SnapshotWriter under any sequence of write / write_snapshot calls     *)
(* (wxj/src/lines/io.rs): flat_output is the writer, log.calls the calls   *)
(* made on it so far and what each returned.                               *)
(***************************************************************************)
MaxCalls == 3

\* The contents write is given: two one-line payloads, and one too short for
\* SnapshotLine::new.
WriterContents ==
    {Payload(FLAT_PREFIX, 1) \o <<CR, CR, LF>>, Payload(DATA_PREFIX, 2) \o <<LF>>,
     <<"1", LF>>}

\* The digests the calls carry.
WriterDigests == {Sha1(c) : c \in {c \in WriterContents : Len(c) >= 4}}

\* The lines write_snapshot is given.
WriterLines ==
    {StoredLine(Payload(FLAT_PREFIX, 1), <<CR, CR, LF>>, None, None, None),
     StoredLine(Payload(DATA_PREFIX, 2), <<LF>>, None, Some(<<2018, 5, 25, 1, 2, 3>>),
                None)}

Call(op, digest, result) == [op |-> op, digest |-> digest, result |-> result]

WriterInit ==
    /\ line = None /\ text = None /\ parsed = None /\ validated = None
    /\ raw = None /\ hasher = <<>>
    /\ paths = <<>> /\ flat_input = <<>> /\ data_input = <<>>
    /\ flat_output = WriterCreate
    /\ data_output = WriterCreate
    /\ flat_next = None /\ data_next = None /\ idx = 0
    /\ pc = "writing"
    /\ CallIdle
    /\ log = [flat_store |-> <<>>, data_store |-> <<>>, fresh |-> <<>>, calls |-> <<>>]

WriterUnchanged ==
    /\ CallUnchanged
    /\ UNCHANGED <<line, text, parsed, hasher, validated, raw, paths, flat_input,
                   data_input, data_output, flat_next, data_next, idx>>

\* writer.write(digest, reader)
WriterWrite ==
    /\ pc = "writing"
    /\ Len(log.calls) < MaxCalls
    /\ \E digest \in WriterDigests, content \in WriterContents, io_ok \in BOOLEAN :
       \E r \in {Write(flat_output, digest, content, io_ok)} :
            /\ flat_output' = r.writer
            /\ log' = [log EXCEPT !.calls = Append(@, Call("write", digest, r.result))]
            /\ pc' = IF r.result = "Panic" THEN "panicked" ELSE pc
    /\ WriterUnchanged

\* writer.write_snapshot(&snapshot_line)
WriterWriteSnapshot ==
    /\ pc = "writing"
    /\ Len(log.calls) < MaxCalls
    /\ \E l \in WriterLines, io_ok \in BOOLEAN :
       \E r \in {WriteSnapshot(flat_output, l, io_ok)} :
            /\ flat_output' = r.writer
            /\ log' = [log EXCEPT
                         !.calls = Append(@, Call("write_snapshot", l.digest, r.result))]
    /\ UNCHANGED pc
    /\ WriterUnchanged

WriterNext == WriterWrite \/ WriterWriteSnapshot

SpecWriter == WriterInit /\ [][WriterNext]_vars

(***************************************************************************)
(* What the properties read off the state                                  *)
(***************************************************************************)
Range(seq) == {seq[k] : k \in 1..Len(seq)}

\* The digest a serialized line carries: the 32 characters after {"digest":".
LineDigest(t) ==
    DigestFromStr(Slice(t, DIGEST_KEY_LEN + 5, DIGEST_KEY_LEN + 5 + DIGEST_LEN)).val

\* The digests of the lines a writer has written, in order.
WrittenDigests(w) == <<>> \o [k \in 1..Len(w.underlying) |-> LineDigest(w.underlying[k])]

\* The lines of a store as the reader yields them (for a store read without
\* an I/O error).
StoreTexts(store) == <<>> \o [k \in 1..Len(store) |-> store[k].val]

\* The elements of seq that are in set, in order.
RECURSIVE Keep(_, _)
Keep(seq, set) ==
    IF seq = <<>> THEN <<>>
    ELSE (IF Head(seq) \in set THEN <<Head(seq)>> ELSE <<>>) \o Keep(Tail(seq), set)

\* The lines of the stores that SnapshotLine::parse rejects.
UnparsableLines ==
    {item \in FlatItems \cup DataItems : item.tag = "Ok" /\ Parse(item.val).tag = "Err"}

\* A line of a store that the reader yields but SnapshotLine::parse rejects.
FailsToParse(item) == item \in UnparsableLines

\* The digests of the records of both existing stores.
ExistingDigests == Range(StoreDigests(log.flat_store)) \cup Range(StoreDigests(log.data_store))

\* The digest of the most recent call before call k that wrote a line.
RECURSIVE LastWrittenBefore(_)
LastWrittenBefore(k) ==
    IF k <= 1 THEN None
    ELSE IF log.calls[k - 1].result = "true" THEN Some(log.calls[k - 1].digest)
    ELSE LastWrittenBefore(k - 1)

\* The digests of the calls that wrote a line, in call order.
RECURSIVE WritingCalls(_)
WritingCalls(calls) ==
    IF calls = <<>> THEN <<>>
    ELSE (IF Head(calls).result = "true" THEN <<Head(calls).digest>> ELSE <<>>)
            \o WritingCalls(Tail(calls))

(***************************************************************************)
(* The claims                                                              *)
(***************************************************************************)

\* C1: parsing the Display serialization of a line gives back the line, field
\* by field, whatever optional fields it has.
C1_ParseDisplayRoundTrip ==
    pc = "parsed" => (parsed[1].tag = "Ok" /\ parsed[1].val = line[1])

\* C2: for raw content c of at least 4 bytes, the line SnapshotLine::new builds
\* from SHA1(c) and c has content followed by its trailer equal to c, and it
\* passes validate.
C2_NewPassesValidate ==
    (IsSome(raw) /\ Len(raw[1]) >= 4) =>
        /\ IsSome(line)
        /\ line[1].content \o ValidateTrailer(line[1]) = raw[1]
        /\ IsSome(validated) => validated[1].tag = "Ok"

\* C3: with the driving list sorted by digest and both existing stores strictly
\* ascending, the digests written to each output store strictly ascend, at
\* every step of the merge.
C3_OutputStrictlyAscending ==
    /\ StrictlyAscending(WrittenDigests(flat_output))
    /\ StrictlyAscending(WrittenDigests(data_output))

\* A finished merge whose flat output holds drained or flushed records around
\* a line built from a file.
C3_Witness ==
    /\ pc = "done"
    /\ Len(flat_output.underlying) >= 3
    /\ \E k \in 1..Len(log.fresh) : log.fresh[k].store = "flat"

\* C4: every line Merge builds from a file carries the SHA-1 of the bytes of
\* that file: a file whose bytes do not hash to its name yields no line.
C4_FreshFilesVerified ==
    \A k \in 1..Len(log.fresh) : log.fresh[k].digest = Sha1(log.fresh[k].content)

\* C5: after a successful merge every record of each existing store is in the
\* matching output exactly once, serialized as it was and in the same order,
\* and in no other output.
C5_ExistingRecordsPreserved ==
    pc = "done" =>
        /\ Keep(flat_output.underlying, Range(StoreTexts(log.flat_store)))
              = StoreTexts(log.flat_store)
        /\ Keep(data_output.underlying, Range(StoreTexts(log.data_store)))
              = StoreTexts(log.data_store)

\* C6: for a driving digest D that an existing store already holds, the output
\* holds the existing record unchanged and no store receives a line built from
\* the file of D, also when D is repeated in the driving list.
C6_ExistingDigestNotRewritten ==
    pc = "done" =>
        \A i \in 1..Len(paths) :
            paths[i].digest \in ExistingDigests =>
                /\ \A k \in 1..Len(log.fresh) : log.fresh[k].digest # paths[i].digest
                /\ \A t \in Range(StoreTexts(log.flat_store)) :
                      LineDigest(t) = paths[i].digest => t \in Range(flat_output.underlying)
                /\ \A t \in Range(StoreTexts(log.data_store)) :
                      LineDigest(t) = paths[i].digest => t \in Range(data_output.underlying)

\* C7: when every driving digest is already in an existing store, the output
\* stores of a successful merge equal the input stores line for line.
C7_MergeIdempotent ==
    (pc = "done" /\ \A i \in 1..Len(paths) : paths[i].digest \in ExistingDigests) =>
        /\ flat_output.underlying = StoreTexts(log.flat_store)
        /\ data_output.underlying = StoreTexts(log.data_store)

\* C8: when a line of an existing store fails to parse, the merge never
\* reaches the finish step of either output and never completes.
C8_ParseFailureNeverFinishes ==
    (\E item \in Range(log.flat_store) \cup Range(log.data_store) : FailsToParse(item)) =>
        /\ pc \notin {"m_finish_flat", "m_finish_data", "done"}
        /\ flat_output.finished = 0
        /\ data_output.finished = 0

\* A merge that has written records and then ended on the line that fails to
\* parse.
C8_Witness ==
    /\ pc = "err_line"
    /\ \E item \in Range(log.flat_store) \cup Range(log.data_store) : FailsToParse(item)
    /\ flat_output.underlying # <<>>

\* C9: a merge that succeeds has called finish exactly once on each writer,
\* after both existing stores were flushed; no writer is finished twice and
\* nothing is written to a writer once it is finished.
C9_FinishOnceAfterLastWrite ==
    [][/\ pc' = "done" =>
            /\ flat_output'.finished = 1 /\ data_output'.finished = 1
            /\ flat_input' = <<>> /\ data_input' = <<>>
       /\ flat_output'.finished <= 1 /\ data_output'.finished <= 1
       /\ flat_output.finished > 0 => flat_output'.underlying = flat_output.underlying
       /\ data_output.finished > 0 => data_output'.underlying = data_output.underlying
      ]_vars

\* A successful merge that wrote to both outputs before finishing them.
C9_Witness ==
    /\ pc = "done"
    /\ flat_output.underlying # <<>> /\ data_output.underlying # <<>>
    /\ flat_output.finished = 1 /\ data_output.finished = 1

\* C10: a call on a writer returns false and writes nothing exactly when its
\* digest is that of the most recent call that wrote a line; a call that
\* returns true has written its line, so the lines written are those of the
\* calls that returned true, in order, and no two adjacent lines share a
\* digest.
C10_WriterDedup ==
    /\ \A k \in 1..Len(log.calls) :
          /\ log.calls[k].result = "false"
                <=> LastWrittenBefore(k) = Some(log.calls[k].digest)
          /\ log.calls[k].result = "true"
                => LastWrittenBefore(k) # Some(log.calls[k].digest)
    /\ WrittenDigests(flat_output) = WritingCalls(log.calls)
    /\ \A k \in 1..(Len(flat_output.underlying) - 1) :
          LineDigest(flat_output.underlying[k]) # LineDigest(flat_output.underlying[k + 1])

\* Three calls with digests A, B, A, all written, one of them by write and one
\* by write_snapshot.
C10_Witness ==
    /\ Len(log.calls) = 3
    /\ \A k \in 1..3 : log.calls[k].result = "true"
    /\ log.calls[1].digest = log.calls[3].digest
    /\ log.calls[1].digest # log.calls[2].digest
    /\ {log.calls[k].op : k \in 1..3} = {"write", "write_snapshot"}
    /\ Len(flat_output.underlying) = 3

(***************************************************************************)
(* Command::Merge as a function of its inputs, for runs in which no write  *)
(* fails: what the loops of main.rs leave in the two outputs.  It is built *)
(* from the same steps as the actions above and serves to compare two runs.*)
(***************************************************************************)
RunState(pc_, fi, di, fo, do) ==
    [pc |-> pc_, flat_input |-> fi, data_input |-> di, flat_output |-> fo,
     data_output |-> do]

\* while next < digest { copy the head through; peek again }
RECURSIVE RunDrain(_, _, _)
RunDrainCopied(r, digest) ==
    IF r.pc # "ok" THEN r ELSE RunDrain(r.input, r.output, digest)

RunDrainPeeked(input, output, digest, peeked) ==
    IF peeked.tag = "Panic" THEN [pc |-> "panicked", input |-> input, output |-> output]
    ELSE IF DrainCondition(peeked.val, digest)
    THEN RunDrainCopied(CopyThrough(input, output, TRUE), digest)
    ELSE [pc |-> "ok", input |-> input, output |-> output]

RunDrain(input, output, digest) ==
    RunDrainPeeked(input, output, digest, PeekDigest(input))

\* for snapshot_line in input { output.write_snapshot(&snapshot_line?)?; }
RECURSIVE RunFlush(_, _)
RunFlushCopied(r) == IF r.pc # "ok" THEN r ELSE RunFlush(r.input, r.output)

RunFlush(input, output) ==
    IF input = <<>> THEN [pc |-> "ok", input |-> input, output |-> output]
    ELSE RunFlushCopied(CopyThrough(input, output, TRUE))

\* The end of the run: both flushes, then both finishes.
RunEndFlushed(f, d) ==
    IF f.pc # "ok" THEN RunState(f.pc, f.input, d.input, f.output, d.output)
    ELSE IF d.pc # "ok" THEN RunState(d.pc, f.input, d.input, f.output, d.output)
    ELSE RunState("done", f.input, d.input, Finish(f.output), Finish(d.output))

RunEndData(f, di, do) ==
    IF f.pc # "ok" THEN RunState(f.pc, f.input, di, f.output, do)
    ELSE RunEndFlushed(f, RunFlush(di, do))

RunEnd(st) == RunEndData(RunFlush(st.flat_input, st.flat_output),
                         st.data_input, st.data_output)

\* One driving entry: both drains, then the copy or the new line.
RunMatched(m) ==
    RunState(m.pc, m.flat_input, m.data_input, m.flat_output, m.data_output)

RunEntryDrained(entry, f, d) ==
    IF f.pc # "ok" THEN RunState(f.pc, f.input, d.input, f.output, d.output)
    ELSE IF d.pc # "ok" THEN RunState(d.pc, f.input, d.input, f.output, d.output)
    ELSE IF PeekDigest(f.input).tag = "Panic" \/ PeekDigest(d.input).tag = "Panic"
    THEN RunState("panicked", f.input, d.input, f.output, d.output)
    ELSE RunMatched(MatchStep(MatchBranch(PeekDigest(f.input).val,
                                          PeekDigest(d.input).val, entry),
                              entry, f.input, d.input, f.output, d.output, TRUE))

RunEntry(entry, st) ==
    IF PeekDigest(st.flat_input).tag = "Panic" \/ PeekDigest(st.data_input).tag = "Panic"
    THEN RunState("panicked", st.flat_input, st.data_input, st.flat_output,
                  st.data_output)
    ELSE RunEntryDrained(entry,
                         RunDrain(st.flat_input, st.flat_output, entry.digest),
                         RunDrain(st.data_input, st.data_output, entry.digest))

RECURSIVE RunEntries(_, _)
RunEntries(entries, st) ==
    IF st.pc # "ok" THEN st
    ELSE IF entries = <<>> THEN RunEnd(st)
    ELSE RunEntries(Tail(entries), RunEntry(Head(entries), st))

MergeRun(entries, flat_store, data_store) ==
    RunEntries(entries, RunState("ok", flat_store, data_store, WriterCreate, WriterCreate))

\* The driving list without the entries whose file cannot be read.
RECURSIVE Readable(_)
Readable(entries) ==
    IF entries = <<>> THEN <<>>
    ELSE (IF Head(entries).file.tag = "Err" THEN <<>> ELSE <<Head(entries)>>)
            \o Readable(Tail(entries))

\* Whether a run ended as the merge of the state did: done, with the same
\* two outputs.
SameOutputs(run) ==
    /\ run.pc = "done"
    /\ run.flat_output = flat_output
    /\ run.data_output = data_output

\* C11: a driving entry whose file cannot be read writes nothing and the run
\* goes on with the next entry; a run that succeeds leaves in both outputs what
\* the same merge leaves with those entries removed from the driving list.
C11_UnreadableFileSkipped ==
    /\ [](pc = "done" =>
            SameOutputs(MergeRun(Readable(paths), log.flat_store, log.data_store)))
    /\ [][(/\ pc = "m_match"
           /\ MatchBranch(flat_next, data_next, paths[idx]) = "read_failed")
          => /\ pc' = "m_loop" /\ idx' = idx + 1
             /\ flat_output' = flat_output /\ data_output' = data_output
             /\ flat_input' = flat_input /\ data_input' = data_input]_vars

\* A successful merge that met an unreadable file before it built a line from
\* a later file.
C11_Witness ==
    /\ pc = "done"
    /\ \E i \in 1..Len(paths) : \E k \in 1..Len(log.fresh) :
          /\ paths[i].file.tag = "Err"
          /\ DigestLess(paths[i].digest, log.fresh[k].digest)

(***************************************************************************)
(* Functions under test outside the line codec: one call each, on an       *)
(* argument drawn from a bounded set.                                      *)
(***************************************************************************)
ProgramIdle ==
    /\ line = None /\ text = None /\ parsed = None /\ validated = None
    /\ raw = None /\ hasher = <<>>
    /\ paths = <<>> /\ flat_input = <<>> /\ data_input = <<>>
    /\ flat_output = [last_written |-> None, underlying |-> <<>>, finished |-> 0]
    /\ data_output = [last_written |-> None, underlying |-> <<>>, finished |-> 0]
    /\ flat_next = None /\ data_next = None /\ idx = 0
    /\ log = [flat_store |-> <<>>, data_store |-> <<>>, fresh |-> <<>>, calls |-> <<>>]

ProgramUnchanged ==
    UNCHANGED <<line, text, parsed, hasher, validated, raw, paths, flat_input,
                data_input, flat_output, data_output, flat_next, data_next, idx,
                log>>

\* A text of the model from a TLA+ string of known characters.
Chars(alphabet, indices) == <<>> \o [k \in 1..Len(indices) |-> alphabet[indices[k]]]

\* s with its k-th character replaced by c.
ReplaceAt(s, k, c) == SubSeq(s, 1, k - 1) \o <<c>> \o SubSeq(s, k + 1, Len(s))

(***************************************************************************)
(* Digest (wbm/src/digest.rs, core/src/digest.rs): a digest text as found  *)
(* in CDX data, Valid(Sha1Digest) or Invalid(text)                         *)
(***************************************************************************)
PAD == "="
BASE32_BLOCK == 8

\* The number of characters of an 8-character block before its trailing run
\* of padding.
Base32Unpadded(block) ==
    IF \A j \in 1..Len(block) : block[j] = PAD THEN 0
    ELSE CHOOSE n \in 1..Len(block) :
            /\ block[n] # PAD
            /\ \A j \in (n + 1)..Len(block) : block[j] = PAD

\* data_encoding::BASE32 over one block: the bytes of the block, or Err for a
\* character outside the alphabet, a padding of impossible length or trailing
\* bits that are not zero.
Base32DecodeSymbols(symbols, n) ==
    IF n = BASE32_BLOCK THEN Ok(Regroup(symbols, 5, 8, 5))
    ELSE IF n \notin {2, 4, 5, 7} THEN Err("Padding")
    ELSE IF Regroup(symbols, 5, 8, (5 * n) \div 8 + 1)[(5 * n) \div 8 + 1] # 0
    THEN Err("Trailing")
    ELSE Ok(Regroup(symbols, 5, 8, (5 * n) \div 8))

Base32DecodeBlock(block) ==
    IF \E j \in 1..Base32Unpadded(block) : block[j] \notin DOMAIN Base32Value
    THEN Err("Symbol")
    ELSE Base32DecodeSymbols(
            <<>> \o [j \in 1..Base32Unpadded(block) |-> Base32Value[block[j]]],
            Base32Unpadded(block))

\* BASE32.decode_mut(input, &mut output): the bytes decoded (count is their
\* number) or Err; the input is a whole number of blocks.
RECURSIVE Base32DecodeMut(_)
Base32DecodeNext(head, rest) ==
    IF head.tag = "Err" THEN head
    ELSE IF rest.tag = "Err" THEN rest
    ELSE Ok(head.val \o rest.val)

Base32DecodeMut(s) ==
    IF Len(s) = 0 THEN Ok(<<>>)
    ELSE Base32DecodeNext(Base32DecodeBlock(SubSeq(s, 1, BASE32_BLOCK)),
                          Base32DecodeMut(SubSeq(s, BASE32_BLOCK + 1, Len(s))))

Valid(digest) == [tag |-> "Valid", digest |-> digest]
Invalid(digest) == [tag |-> "Invalid", digest |-> digest]

DigestCounted(s, decoded) ==
    IF decoded.tag = "Err" THEN Err("Decoding")
    ELSE IF Len(decoded.val) = DIGEST_BYTES THEN Ok(Valid(decoded.val))
    ELSE Ok(Invalid(s))

\* Digest::parse_str of wbm.
DigestParseStr(s) ==
    IF Len(s) = DIGEST_LEN THEN DigestCounted(s, Base32DecodeMut(s))
    ELSE Ok(Invalid(s))

\* impl FromStr for Digest of core.
CoreDigestFromStr(s) ==
    IF Len(s) = DIGEST_LEN THEN DigestCounted(s, Base32DecodeMut(s))
    ELSE Ok(Invalid(s))

\* How many characters a digest text may have beyond the 32 of a digest.
MaxExtra == 1

\* tests::round_trip_digest_valid: ZHYT52YPEOCHJD5FZINSDYXGQZI22WJ4
TestDigestText ==
    Chars(BASE32, <<26, 8, 25, 20, 30, 27, 25, 16, 5, 15, 3, 8, 10, 4, 30, 6,
                    26, 9, 14, 19, 4, 25, 24, 7, 17, 26, 9, 27, 27, 23, 10, 29>>)

ZeroDigestText == <<>> \o [k \in 1..DIGEST_LEN |-> "A"]

\* Characters a digest text of real data may hold in place of a symbol: one
\* of another digest, lower case, a digit outside the alphabet, padding.
DigestEdits == {"B", "a", "1", PAD}

\* The digest texts tried: the two digests, every prefix of them, each with
\* up to MaxExtra more characters, each with one character replaced, and
\* each with its last block padded.
DigestTexts ==
    LET bases == {TestDigestText, ZeroDigestText} IN
        bases
        \cup {SubSeq(b, 1, n) : b \in bases, n \in 0..DIGEST_LEN}
        \cup {b \o [k \in 1..n |-> "A"] : b \in bases, n \in 1..MaxExtra}
        \cup {ReplaceAt(b, k, c) : b \in bases, k \in 1..DIGEST_LEN, c \in DigestEdits}
        \cup {SubSeq(b, 1, DIGEST_LEN - n) \o [k \in 1..n |-> PAD] :
                b \in bases, n \in 1..BASE32_BLOCK}

DigestInit ==
    /\ ProgramIdle
    /\ pc = "digest_call"
    /\ call_input \in DigestTexts
    /\ call_result = <<>> /\ computer = <<>> /\ threads = <<>> /\ importer = <<>> /\ part_iter = <<>>

\* Digest::parse_str(input)
DigestParse ==
    /\ pc = "digest_call"
    /\ call_result' = DigestParseStr(call_input)
    /\ pc' = "digest_parsed"
    /\ ProgramUnchanged
    /\ UNCHANGED <<call_input, computer, threads, importer, part_iter>>

\* input.parse::<Digest>()
DigestFromStrCall ==
    /\ pc = "digest_call"
    /\ call_result' = CoreDigestFromStr(call_input)
    /\ pc' = "digest_from_str"
    /\ ProgramUnchanged
    /\ UNCHANGED <<call_input, computer, threads, importer, part_iter>>

DigestNext == DigestParse \/ DigestFromStrCall

SpecDigest == DigestInit /\ [][DigestNext]_vars

\* The texts that are 32 characters of the Base32 alphabet.
IsDigestText(s) ==
    /\ Len(s) = DIGEST_LEN
    /\ \A j \in 1..Len(s) : s[j] \in DOMAIN Base32Value

\* C12: parsing a digest text never returns an error: it returns Valid(d) for
\* 32 characters that Base32-decode to the 20 bytes d, and Invalid(text) for
\* every other text, a 32-character text with a character outside the
\* alphabet included.
C12_DigestParsingTotal ==
    pc \in {"digest_parsed", "digest_from_str"} =>
        /\ call_result.tag = "Ok"
        /\ (call_result.val.tag = "Valid") = IsDigestText(call_input)
        /\ call_result.val.tag = "Valid" =>
                DigestToString(call_result.val.digest) = call_input
        /\ call_result.val.tag = "Invalid" => call_result.val.digest = call_input

(***************************************************************************)
(* Surt (core/src/surt.rs): a SURT key, its text and the lengths of the    *)
(* labels of its domain name                                               *)
(***************************************************************************)
ASCII_ALPHANUMERIC ==
    {"A", "B", "C", "D", "E", "F", "G", "H", "I", "J", "K", "L", "M", "N", "O",
     "P", "Q", "R", "S", "T", "U", "V", "W", "X", "Y", "Z",
     "a", "b", "c", "d", "e", "f", "g", "h", "i", "j", "k", "l", "m", "n", "o",
     "p", "q", "r", "s", "t", "u", "v", "w", "x", "y", "z",
     "0", "1", "2", "3", "4", "5", "6", "7", "8", "9"}

\* The loop of Surt::parse_str from the k-th character on, with the length of
\* the label being read and the lengths pushed so far.
RECURSIVE SurtScan(_, _, _, _)
SurtScan(s, k, len, domain_name_part_lens) ==
    IF k > Len(s) THEN Ok(domain_name_part_lens)
    ELSE IF s[k] \in ASCII_ALPHANUMERIC \/ s[k] = "-"
    THEN SurtScan(s, k + 1, len + 1, domain_name_part_lens)
    ELSE IF s[k] = ","
    THEN SurtScan(s, k + 1, 0, Append(domain_name_part_lens, len))
    ELSE IF s[k] = ")" THEN Ok(Append(domain_name_part_lens, len))
    ELSE Err("InvalidSurt")

SurtScanned(s, scanned) ==
    IF scanned.tag = "Err" THEN Err("InvalidSurt")
    ELSE Ok([source |-> s, domain_name_part_lens |-> scanned.val])

\* Surt::parse_str
SurtParseStr(s) == SurtScanned(s, SurtScan(s, 1, 0, <<>>))

\* The longest SURT text tried.
MaxSurtLen == 4

\* A letter, the hyphen, the two separators, the first character of a path
\* and a character no SURT holds.
SurtAlphabet == {"c", "-", ",", ")", "/", "!"}

SurtTexts ==
    UNION {[1..n -> SurtAlphabet] : n \in 0..MaxSurtLen}

SurtInit ==
    /\ ProgramIdle
    /\ pc = "surt_call"
    /\ call_input \in SurtTexts
    /\ call_result = <<>> /\ computer = <<>> /\ threads = <<>> /\ importer = <<>> /\ part_iter = <<>>

\* Surt::parse_str(input)
SurtParse ==
    /\ pc = "surt_call"
    /\ call_result' = SurtParseStr(call_input)
    /\ pc' = "surt_parsed"
    /\ ProgramUnchanged
    /\ UNCHANGED <<call_input, computer, threads, importer, part_iter>>

SurtNext == SurtParse

SpecSurt == SurtInit /\ [][SurtNext]_vars

IsLabelChar(ch) == ch \in ASCII_ALPHANUMERIC \/ ch = "-"

\* (alnum|-)+(,(alnum|-)+)*)path: up to the first ")" there are only label
\* characters and commas, and every comma and the ")" follow a label
\* character.
MatchesSurtGrammar(s) ==
    \E p \in 1..Len(s) :
        /\ s[p] = ")"
        /\ p > 1
        /\ \A j \in 1..(p - 1) : IsLabelChar(s[j]) \/ s[j] = ","
        /\ \A j \in 1..p : s[j] \in {",", ")"} => (j > 1 /\ IsLabelChar(s[j - 1]))

\* C20: Surt::parse_str accepts an input only if it matches
\* (alnum|-)+(,(alnum|-)+)*)path, and rejects every other input, one without
\* ")" or with an empty label included, with InvalidSurt.
C20_SurtGrammar ==
    pc = "surt_parsed" =>
        (call_result.tag = "Ok") = MatchesSurtGrammar(call_input)

(***************************************************************************)
(* CDX lists (core/src/cdx/entry.rs, wbm/src/cdx/item/mod.rs,              *)
(* core/src/cdx/item/extended.rs)                                          *)
(*                                                                         *)
(* A CDX page is a JSON array of arrays of strings: each element of the    *)
(* outer array is the sequence of its strings.  serde_json hands it to the *)
(* visitors one element at a time, and fails the array whose visitor       *)
(* returned without reading all of it.                                     *)
(***************************************************************************)
COLUMN_URLKEY == <<"u", "r", "l", "k", "e", "y">>
COLUMN_TIMESTAMP == <<"t", "i", "m", "e", "s", "t", "a", "m", "p">>
COLUMN_ORIGINAL == <<"o", "r", "i", "g", "i", "n", "a", "l">>
COLUMN_MIMETYPE == <<"m", "i", "m", "e", "t", "y", "p", "e">>
COLUMN_STATUSCODE == <<"s", "t", "a", "t", "u", "s", "c", "o", "d", "e">>
COLUMN_DIGEST == <<"d", "i", "g", "e", "s", "t">>
COLUMN_LENGTH == <<"l", "e", "n", "g", "t", "h">>
COLUMN_REDIRECT == <<"r", "e", "d", "i", "r", "e", "c", "t">>
COLUMN_ROBOTFLAGS == <<"r", "o", "b", "o", "t", "f", "l", "a", "g", "s">>
COLUMN_OFFSET == <<"o", "f", "f", "s", "e", "t">>
COLUMN_FILENAME == <<"f", "i", "l", "e", "n", "a", "m", "e">>

\* The header EntryHeader::Normal stands for, ITEM_LIST_HEADER of wbm.
SHORT_HEADER ==
    <<COLUMN_URLKEY, COLUMN_TIMESTAMP, COLUMN_ORIGINAL, COLUMN_MIMETYPE,
      COLUMN_STATUSCODE, COLUMN_DIGEST, COLUMN_LENGTH>>

\* The header EntryHeader::Extended stands for, ITEM_LIST_HEADER of extended.rs.
EXTENDED_HEADER ==
    <<COLUMN_URLKEY, COLUMN_TIMESTAMP, COLUMN_ORIGINAL, COLUMN_MIMETYPE,
      COLUMN_STATUSCODE, COLUMN_DIGEST, COLUMN_REDIRECT, COLUMN_ROBOTFLAGS,
      COLUMN_LENGTH, COLUMN_OFFSET, COLUMN_FILENAME>>

HYPHEN == <<"-">>
TEXT_HTML == <<"t", "e", "x", "t", "/", "h", "t", "m", "l">>
APPLICATION_JSON ==
    <<"a", "p", "p", "l", "i", "c", "a", "t", "i", "o", "n", "/", "j", "s",
      "o", "n">>

\* The aliases of the variants of StatusCode; "-" is StatusCode::Empty.
STATUS_CODE_ALIASES ==
    {HYPHEN,
     <<"2", "0", "0">>, <<"3", "0", "1">>, <<"3", "0", "2">>,
     <<"3", "0", "3">>, <<"3", "0", "7">>, <<"4", "0", "0">>,
     <<"4", "0", "1">>, <<"4", "0", "3">>, <<"4", "0", "4">>,
     <<"4", "2", "6">>, <<"4", "2", "9">>, <<"4", "3", "1">>,
     <<"5", "0", "0">>, <<"5", "0", "2">>, <<"5", "0", "3">>,
     <<"5", "0", "4">>, <<"5", "2", "0">>, <<"5", "2", "1">>,
     <<"5", "2", "4">>}

\* The MimeType a text denotes: no text is refused.
MimeTypeFromStr(s) ==
    IF s = TEXT_HTML THEN [tag |-> "TextHtml", val |-> <<>>]
    ELSE IF s = APPLICATION_JSON THEN [tag |-> "ApplicationJson", val |-> <<>>]
    ELSE [tag |-> "Other", val |-> s]

\* The largest values of u16, u32 and u64, in decimal.
U16_MAX == <<"6", "5", "5", "3", "5">>
U32_MAX == <<"4", "2", "9", "4", "9", "6", "7", "2", "9", "5">>
U64_MAX ==
    <<"1", "8", "4", "4", "6", "7", "4", "4", "0", "7", "3", "7", "0", "9",
      "5", "5", "1", "6", "1", "5">>

\* A text of digits without its leading zeros.
StripZeros(d) ==
    IF \A k \in 1..Len(d) : d[k] = "0" THEN <<"0">>
    ELSE SubSeq(d, CHOOSE k \in 1..Len(d) :
                        d[k] # "0" /\ \A j \in 1..(k - 1) : d[j] = "0", Len(d))

\* a <= b for two numbers written without leading zeros.
DigitsLessEq(a, b) ==
    \/ Len(a) < Len(b)
    \/ /\ Len(a) = Len(b)
       /\ \/ a = b
          \/ \E k \in 1..Len(a) :
                /\ IndexOf(DIGITS, a[k]) < IndexOf(DIGITS, b[k])
                /\ \A j \in 1..(k - 1) : a[j] = b[j]

ParseDigits(d, max) ==
    IF Len(d) = 0 \/ \E k \in 1..Len(d) : IndexOf(DIGITS, d[k]) = 0
    THEN Err("InvalidDigit")
    ELSE IF ~DigitsLessEq(StripZeros(d), max) THEN Err("PosOverflow")
    ELSE Ok(StripZeros(d))

\* str::parse of an unsigned integer type: digits after an optional "+", not
\* above the largest value of the type.  The value is kept in decimal.
ParseUnsigned(s, max) ==
    IF Len(s) > 0 /\ s[1] = "+" THEN ParseDigits(Tail(s), max) ELSE ParseDigits(s, max)

\* parse_length of wbm: "-" is no length, anything else a u32.
ParseLength(s) ==
    IF s = HYPHEN THEN Ok(None)
    ELSE IF ParseUnsigned(s, U32_MAX).tag = "Err" THEN Err("length")
    ELSE Ok(Some(ParseUnsigned(s, U32_MAX).val))

\* The status_code of core's Entry: "-" is None, anything else a u16.
ParseStatusCode(s) ==
    IF s = HYPHEN THEN Ok(None)
    ELSE IF ParseUnsigned(s, U16_MAX).tag = "Err" THEN Err("status_code")
    ELSE Ok(Some(ParseUnsigned(s, U16_MAX).val))

\* Deserialize for StatusCode of wbm: one of the aliases (or the name of a
\* variant, which no CDX page holds).
StatusCodeDeserialize(s) ==
    IF s \in STATUS_CODE_ALIASES THEN Ok(s) ELSE Err("unknown variant")

\* "-" in a column that may be absent.
Absent(s) == IF s = HYPHEN THEN None ELSE Some(s)

Empty == [tag |-> "Empty", item |-> <<>>]
Row(item) == [tag |-> "Item", item |-> item]

\* The six columns both row forms start with are all there and all parse,
\* the digest with str::parse::<Digest>.
CommonColumnsParse(row) ==
    /\ Len(row) >= 7
    /\ SurtParseStr(row[1]).tag = "Ok"
    /\ TimestampFromStr(row[2]).tag = "Ok"
    /\ CoreDigestFromStr(row[6]).tag = "Ok"

\* EntryOrEmptyVisitor::visit_seq of core, then the end of the row's array:
\* the form of the row is read off its eighth column, present or not.
EntryOrEmptyDeserialize(row) ==
    IF Len(row) = 0 THEN Ok(Empty)
    ELSE IF ~CommonColumnsParse(row) \/ ParseStatusCode(row[5]).tag = "Err"
    THEN Err("row")
    ELSE IF Len(row) = 7
    THEN IF ParseUnsigned(row[7], U64_MAX).tag = "Err" THEN Err("length")
         ELSE Ok(Row([key |-> SurtParseStr(row[1]).val,
                      timestamp |-> TimestampFromStr(row[2]).val,
                      original |-> row[3],
                      mime_type |-> MimeTypeFromStr(row[4]),
                      status_code |-> ParseStatusCode(row[5]).val,
                      digest |-> CoreDigestFromStr(row[6]).val,
                      length |-> ParseUnsigned(row[7], U64_MAX).val,
                      extended_info |-> None]))
    ELSE IF Len(row) < 11 THEN Err("invalid_length")
    ELSE IF \/ ParseUnsigned(row[9], U64_MAX).tag = "Err"
            \/ ParseUnsigned(row[10], U64_MAX).tag = "Err"
    THEN Err("invalid_value")
    ELSE IF Len(row) > 11 THEN Err("TrailingCharacters")
    ELSE Ok(Row([key |-> SurtParseStr(row[1]).val,
                 timestamp |-> TimestampFromStr(row[2]).val,
                 original |-> row[3],
                 mime_type |-> MimeTypeFromStr(row[4]),
                 status_code |-> ParseStatusCode(row[5]).val,
                 digest |-> CoreDigestFromStr(row[6]).val,
                 length |-> ParseUnsigned(row[9], U64_MAX).val,
                 extended_info |-> Some([redirect |-> row[7],
                                         robot_flags |-> row[8],
                                         offset |-> ParseUnsigned(row[10], U64_MAX).val,
                                         file_name |-> row[11]])]))

\* Item of wbm from the seven columns of a short row.
ItemOf(row, length) ==
    [key |-> SurtParseStr(row[1]).val,
     timestamp |-> TimestampFromStr(row[2]).val,
     original |-> row[3],
     mime_type |-> MimeTypeFromStr(row[4]),
     status_code |-> StatusCodeDeserialize(row[5]).val,
     digest |-> CoreDigestFromStr(row[6]).val,
     length |-> length]

\* ItemOrEmptyVisitor::visit_seq of wbm: seven columns, an eighth is refused.
ItemOrEmptyDeserialize(row) ==
    IF Len(row) = 0 THEN Ok(Empty)
    ELSE IF ~CommonColumnsParse(row) \/ StatusCodeDeserialize(row[5]).tag = "Err"
    THEN Err("row")
    ELSE IF ParseLength(row[7]).tag = "Err" THEN Err("length")
    ELSE IF Len(row) > 7 THEN Err("invalid_length")
    ELSE Ok(Row(ItemOf(row, ParseLength(row[7]).val)))

\* ItemOrEmptyVisitor::visit_seq of extended.rs: eleven columns, a twelfth is
\* refused.
ExtendedItemOrEmptyDeserialize(row) ==
    IF Len(row) = 0 THEN Ok(Empty)
    ELSE IF ~CommonColumnsParse(row) \/ StatusCodeDeserialize(row[5]).tag = "Err"
    THEN Err("row")
    ELSE IF Len(row) < 11 THEN Err("invalid_length")
    ELSE IF \/ ParseLength(row[9]).tag = "Err"
            \/ ParseUnsigned(row[10], U64_MAX).tag = "Err"
    THEN Err("invalid_value")
    ELSE IF Len(row) > 11 THEN Err("invalid_length")
    ELSE Ok(Row([item |-> ItemOf(row, ParseLength(row[9]).val),
                 redirect |-> Absent(row[7]),
                 robot_flags |-> Absent(row[8]),
                 offset |-> ParseUnsigned(row[10], U64_MAX).val,
                 file_name |-> row[11]]))

\* Deserialize for EntryHeader: the columns one by one, nothing after them.
EntryHeaderDeserialize(header) ==
    IF header = SHORT_HEADER THEN Ok("Normal")
    ELSE IF header = EXTENDED_HEADER THEN Ok("Extended")
    ELSE Err("header")

\* Where the while loop of a list visitor stops, given what the elements
\* after the header decode to: at the first that is no data row (the
\* sentinel, or a row that fails), or past the last.
LoopEnd(decoded) ==
    CHOOSE s \in 1..(Len(decoded) + 1) :
        /\ \A j \in 1..(s - 1) : decoded[j].tag = "Ok" /\ decoded[j].val.tag = "Item"
        /\ s <= Len(decoded) =>
                ~(decoded[s].tag = "Ok" /\ decoded[s].val.tag = "Item")

\* A wrapper that keeps the resume key although the outer array goes on.
ResumeKeyIgnoresTrailing(doc, at) ==
    IF at > Len(doc) THEN Err("invalid_length")
    ELSE IF Len(doc[at]) # 1 THEN Err("wrapper")
    ELSE Ok(Some(doc[at][1]))

\* let (resume_key,) = seq.next_element()?.ok_or_else(invalid_length)?, then
\* the end of the outer array: the element at `at` is an array of one string
\* and the last of the page.
ResumeKey(doc, at) ==
    IF at > Len(doc) THEN Err("invalid_length")
    ELSE IF Len(doc[at]) # 1 THEN Err("wrapper")
    ELSE IF at < Len(doc) THEN Err("TrailingCharacters")
    ELSE Ok(Some(doc[at][1]))

ListWithKey(values, key) ==
    IF key.tag = "Err" THEN key
    ELSE Ok([values |-> values, resume_key |-> key.val])

\* EntryListVisitor::visit_seq after the header, the same in the three
\* decoders: data rows up to the sentinel or the end of the page, then the
\* resume key if the loop ended at a sentinel.  decoded[j] is what the
\* element after the j-th after the header decodes to.
ListVisit(doc, decoded, end) ==
    IF end <= Len(decoded) /\ decoded[end].tag = "Err" THEN decoded[end]
    ELSE ListWithKey(<<>> \o [j \in 1..(end - 1) |-> decoded[j].val.item],
                     IF end > Len(decoded) THEN Ok(None) ELSE ResumeKey(doc, end + 2))

EmptyList == Ok([values |-> <<>>, resume_key |-> None])

EntryRows(doc) == <<>> \o [j \in 1..(Len(doc) - 1) |-> EntryOrEmptyDeserialize(doc[j + 1])]
ItemRows(doc) == <<>> \o [j \in 1..(Len(doc) - 1) |-> ItemOrEmptyDeserialize(doc[j + 1])]
ExtendedItemRows(doc) ==
    <<>> \o [j \in 1..(Len(doc) - 1) |-> ExtendedItemOrEmptyDeserialize(doc[j + 1])]

\* Deserialize for EntryList of core.
EntryListDeserialize(doc) ==
    IF Len(doc) = 0 THEN EmptyList
    ELSE IF EntryHeaderDeserialize(doc[1]).tag = "Err" THEN Err("header")
    ELSE ListVisit(doc, EntryRows(doc), LoopEnd(EntryRows(doc)))

\* Deserialize for ItemList of wbm.
ItemListDeserialize(doc) ==
    IF Len(doc) = 0 THEN EmptyList
    ELSE IF doc[1] # SHORT_HEADER THEN Err("CDX item list header")
    ELSE ListVisit(doc, ItemRows(doc), LoopEnd(ItemRows(doc)))

\* Deserialize for ExtendedItemList.
ExtendedItemListDeserialize(doc) ==
    IF Len(doc) = 0 THEN EmptyList
    ELSE IF doc[1] # EXTENDED_HEADER THEN Err("CDX item list header")
    ELSE ListVisit(doc, ExtendedItemRows(doc), LoopEnd(ExtendedItemRows(doc)))

\* The most data rows a page of the model holds.
MaxRows == 2

ExampleKey == <<"c", "o", "m", ",", "a", ")", "/">>
ExampleTimestamp ==
    <<"2", "0", "1", "8", "0", "5", "2", "5", "0", "1", "0", "2", "0", "3">>
ExampleLength == <<"1", "2", "3">>
OtherLength == <<"7">>
ExampleOffset == <<"4", "5">>
ExampleFileName == <<"f", ".", "g", "z">>
ExampleResumeKey == <<"e", "J", "w">>
NotANumber == <<"x">>
ExampleStatus == <<"2", "0", "0">>
UnknownStatus == <<"2", "9", "9">>

ShortRow(length) ==
    <<ExampleKey, ExampleTimestamp, ExampleUrl, TEXT_HTML, ExampleStatus,
      TestDigestText, length>>

ExtendedRow ==
    <<ExampleKey, ExampleTimestamp, ExampleUrl, TEXT_HTML, HYPHEN,
      TestDigestText, HYPHEN, HYPHEN, ExampleLength, ExampleOffset,
      ExampleFileName>>

\* The header rows tried: the two schemas and one that is neither.
CdxHeaders == {SHORT_HEADER, EXTENDED_HEADER, <<COLUMN_URLKEY>>}

\* The data rows tried: two short rows, an extended row, a short row whose
\* length is no number, a short row with an eighth column and a short row
\* with a status code that is no variant of StatusCode.
CdxRows ==
    {ShortRow(ExampleLength), ShortRow(OtherLength), ExtendedRow,
     ShortRow(NotANumber), ShortRow(ExampleLength) \o <<HYPHEN>>,
     ReplaceAt(ShortRow(ExampleLength), 5, UnknownStatus)}

\* What may come after the data rows: nothing, the sentinel alone, the
\* sentinel and the wrapper of the resume key, and the latter followed by
\* one more element, with an empty wrapper or with a wrapper of two keys.
CdxTails ==
    {<<>>,
     << <<>> >>,
     << <<>>, <<ExampleResumeKey>> >>,
     << <<>>, <<ExampleResumeKey>>, <<ExampleResumeKey>> >>,
     << <<>>, <<ExampleResumeKey>>, ShortRow(ExampleLength) >>,
     << <<>>, <<>> >>,
     << <<>>, <<ExampleResumeKey, ExampleResumeKey>> >>}

CdxPages ==
    {<<>>} \cup
    {<<h>> \o rows \o tail :
        h \in CdxHeaders,
        rows \in UNION {[1..n -> CdxRows] : n \in 0..MaxRows},
        tail \in CdxTails}

CdxInit ==
    /\ ProgramIdle
    /\ pc = "cdx_call"
    /\ call_input \in CdxPages
    /\ call_result = <<>> /\ computer = <<>> /\ threads = <<>> /\ importer = <<>> /\ part_iter = <<>>

\* serde_json::from_str::<EntryList>(contents)
CdxEntryList ==
    /\ pc = "cdx_call"
    /\ call_result' = EntryListDeserialize(call_input)
    /\ pc' = "cdx_entry_list"
    /\ ProgramUnchanged
    /\ UNCHANGED <<call_input, computer, threads, importer, part_iter>>

\* serde_json::from_str::<ItemList>(contents)
CdxItemList ==
    /\ pc = "cdx_call"
    /\ call_result' = ItemListDeserialize(call_input)
    /\ pc' = "cdx_item_list"
    /\ ProgramUnchanged
    /\ UNCHANGED <<call_input, computer, threads, importer, part_iter>>

\* serde_json::from_str::<ExtendedItemList>(contents)
CdxExtendedItemList ==
    /\ pc = "cdx_call"
    /\ call_result' = ExtendedItemListDeserialize(call_input)
    /\ pc' = "cdx_extended_item_list"
    /\ ProgramUnchanged
    /\ UNCHANGED <<call_input, computer, threads, importer, part_iter>>

CdxNext == CdxEntryList \/ CdxItemList \/ CdxExtendedItemList

SpecCdx == CdxInit /\ [][CdxNext]_vars

CdxDecoders == {"cdx_entry_list", "cdx_item_list", "cdx_extended_item_list"}

\* The header of the page is one the decoder that ran accepts.
CdxHeaderAccepted ==
    /\ Len(call_input) > 0
    /\ \/ pc = "cdx_entry_list" /\ call_input[1] \in {SHORT_HEADER, EXTENDED_HEADER}
       \/ pc = "cdx_item_list" /\ call_input[1] = SHORT_HEADER
       \/ pc = "cdx_extended_item_list" /\ call_input[1] = EXTENDED_HEADER

\* What the decoder that ran makes of the elements after the header.
CdxDecoded ==
    IF pc = "cdx_entry_list" THEN EntryRows(call_input)
    ELSE IF pc = "cdx_item_list" THEN ItemRows(call_input)
    ELSE ExtendedItemRows(call_input)

\* The position in the page of the first zero-length row, 0 without one.
SentinelAt(doc) ==
    IF \E j \in 2..Len(doc) : doc[j] = <<>>
    THEN CHOOSE j \in 2..Len(doc) : doc[j] = <<>> /\ \A i \in 2..(j - 1) : doc[i] # <<>>
    ELSE 0

\* The page has a sentinel and every row before it decodes.
SentinelReached ==
    /\ pc \in CdxDecoders
    /\ CdxHeaderAccepted
    /\ SentinelAt(call_input) > 0
    /\ \A j \in 1..(SentinelAt(call_input) - 2) : CdxDecoded[j].tag = "Ok"

\* C13: after the sentinel exactly one element must follow, an array of one
\* string, the resume key: the decode fails when the page ends at the
\* sentinel and when anything follows the wrapper, and otherwise returns
\* Some(key) with the rows before the sentinel in the order of the page.
C13_ResumeKeyAfterSentinel ==
    SentinelReached =>
        /\ Len(call_input) = SentinelAt(call_input) => call_result.tag = "Err"
        /\ Len(call_input) > SentinelAt(call_input) + 1 => call_result.tag = "Err"
        /\ (/\ Len(call_input) = SentinelAt(call_input) + 1
            /\ Len(call_input[Len(call_input)]) = 1)
           => /\ call_result.tag = "Ok"
              /\ call_result.val.resume_key = Some(call_input[Len(call_input)][1])
              /\ call_result.val.values =
                    <<>> \o [j \in 1..(SentinelAt(call_input) - 2) |->
                                CdxDecoded[j].val.item]

C13_Witness ==
    /\ SentinelReached
    /\ SentinelAt(call_input) = 4
    /\ call_input[2] # call_input[3]
    /\ Len(call_input) = 5
    /\ call_result.tag = "Ok"
    /\ call_result.val.resume_key = Some(ExampleResumeKey)
    /\ Len(call_result.val.values) = 2

\* The last data row of the page: the element before the sentinel, or the
\* last element when there is no sentinel.
LastRowAt(doc) == IF SentinelAt(doc) > 0 THEN SentinelAt(doc) - 1 ELSE Len(doc)

\* C14: the header fixes the form of every data row: after the header of 7
\* columns a row of another length makes the whole decode fail, and so does
\* a row that has not 11 columns after the header of 11.
C14_HeaderFixesRowForm ==
    (/\ pc \in CdxDecoders
     /\ CdxHeaderAccepted
     /\ \E j \in 2..LastRowAt(call_input) : Len(call_input[j]) # Len(call_input[1]))
    => call_result.tag = "Err"

(***************************************************************************)
(* Sha1Computer (wbm/src/digest.rs): clones share one Mutex around one     *)
(* sha1::Sha1.  computer is the mutex (the thread holding it, 0 for none)  *)
(* and the bytes fed to the context since its last reset; each thread      *)
(* makes one call of digest_bytes (digest wraps its bytes in Sha1Digest)   *)
(* on a reader of its own, which hands over its bytes chunk by chunk and   *)
(* then ends or fails.                                                     *)
(***************************************************************************)
MaxThreads == 2
MaxChunks == 2

Threads == 1..MaxThreads

\* What one read of a reader may hand over.
Chunks == {<<"a">>, <<"c", "d">>}

\* A reader: the chunks it yields and whether the read after them is an
\* error rather than the end of the input.
Readers ==
    {[chunks |-> c, fails |-> f] :
        c \in UNION {[1..n -> Chunks] : n \in 0..MaxChunks}, f \in BOOLEAN}

Sha1Init ==
    /\ ProgramIdle
    /\ pc = "sha1"
    /\ call_input = <<>> /\ call_result = <<>> /\ importer = <<>> /\ part_iter = <<>>
    /\ computer = [holder |-> 0, hasher |-> <<>>]
    /\ threads \in [Threads -> {[pc |-> "call", input |-> r, read |-> 0, output |-> None] :
                                    r \in Readers}]

Sha1Unchanged ==
    /\ ProgramUnchanged
    /\ UNCHANGED <<pc, call_input, call_result, importer, part_iter>>

\* let mut writer = self.writer.lock().unwrap();
Lock(t) ==
    /\ threads[t].pc = "call"
    /\ computer.holder = 0
    /\ computer' = [computer EXCEPT !.holder = t]
    /\ threads' = [threads EXCEPT ![t].pc = "copy"]
    /\ Sha1Unchanged

\* std::io::copy(input, &mut writer.get_mut())?: one read and the write of
\* what it returned to the context; at the end of the input the copy is
\* over, and on a read error `?` returns it and the guard is dropped.
Copy(t) ==
    /\ threads[t].pc = "copy"
    /\ IF threads[t].read < Len(threads[t].input.chunks)
       THEN /\ computer' = [computer EXCEPT !.hasher =
                    HasherUpdate(@, threads[t].input.chunks[threads[t].read + 1])]
            /\ threads' = [threads EXCEPT ![t].read = @ + 1]
       ELSE IF threads[t].input.fails
       THEN /\ computer' = [computer EXCEPT !.holder = 0]
            /\ threads' = [threads EXCEPT ![t].pc = "done",
                                          ![t].output = Some(Err("io"))]
       ELSE /\ threads' = [threads EXCEPT ![t].pc = "finalize"]
            /\ UNCHANGED computer
    /\ Sha1Unchanged

\* writer.flush()?; let bytes = writer.get_mut().finalize_reset(); Ok(bytes.into())
\* Nothing goes through the BufWriter, so flush has nothing to write.
Finalize(t) ==
    /\ threads[t].pc = "finalize"
    /\ computer' = [holder |-> 0, hasher |-> HasherFinalizeReset(computer.hasher).hasher]
    /\ threads' = [threads EXCEPT ![t].pc = "done",
                      ![t].output = Some(Ok(HasherFinalizeReset(computer.hasher).digest))]
    /\ Sha1Unchanged

Sha1Next == \E t \in Threads : Lock(t) \/ Copy(t) \/ Finalize(t)

SpecSha1 == Sha1Init /\ [][Sha1Next]_vars

\* C15: every call of digest_bytes on a shared Sha1Computer that completes
\* returns the SHA-1 of the bytes of its own input, and the context holds
\* bytes only while some call holds the lock.
C15_OwnInputDigest ==
    pc = "sha1" =>
        /\ \A t \in Threads :
                (threads[t].pc = "done" /\ threads[t].output[1].tag = "Ok")
                => threads[t].output[1].val = Sha1(Concat(threads[t].input.chunks))
        /\ computer.hasher # <<>> => computer.holder # 0

(***************************************************************************)
(* SnapshotLine::validate_lines (wxj/src/lines/mod.rs): call_input is what *)
(* the Lines iterator yields, idx the number of items taken from it,       *)
(* call_result the SnapshotLineValidation and last_digest, hasher the      *)
(* Sha1 of the call, log.valid the digests counted valid so far.           *)
(***************************************************************************)
MaxLines == 3

\* Sha1Digest::MIN
SHA1_DIGEST_MIN == <<>> \o [k \in 1..DIGEST_BYTES |-> 0]

\* SnapshotLineValidation::default()
ValidationDefault ==
    [valid_count |-> 0, invalid_lines |-> <<>>, unexpected_digests |-> <<>>,
     out_of_order |-> <<>>]

\* SnapshotLineValidation::is_successful
IsSuccessful(validation) ==
    /\ validation.invalid_lines = <<>>
    /\ validation.unexpected_digests = <<>>
    /\ validation.out_of_order = <<>>

\* A line that ends before its digest does.
ShortLineText == <<"{", "}">>

\* A line of the format whose content is not what its digest says.
TamperedLine ==
    [StoredLine(Payload(DATA_PREFIX, 3), <<CR, CR, LF>>, None, None, None)
        EXCEPT !.digest = Sha1(Payload(FLAT_PREFIX, 3) \o <<CR, CR, LF>>)]

\* What the Lines iterator may yield: three lines of the format, a line
\* with a wrong digest, a line that is no snapshot line, a line too short
\* to hold a digest, and an I/O error.
LineItems ==
    {Ok(Display(StoredLine(Payload(FLAT_PREFIX, 1), <<CR, CR, LF>>, None, None, None))),
     Ok(Display(StoredLine(Payload(FLAT_PREFIX, 2), <<CR, CR, LF>>, None, None, None))),
     Ok(Display(StoredLine(Payload(DATA_PREFIX, 1), <<LF>>, None, None, None))),
     Ok(Display(TamperedLine)),
     Ok(InvalidLineText),
     Ok(ShortLineText),
     Err(<<>>)}

ValidateLinesInit ==
    /\ line = None /\ text = None /\ parsed = None /\ validated = None
    /\ raw = None
    /\ paths = <<>> /\ flat_input = <<>> /\ data_input = <<>>
    /\ flat_output = [last_written |-> None, underlying |-> <<>>, finished |-> 0]
    /\ data_output = [last_written |-> None, underlying |-> <<>>, finished |-> 0]
    /\ flat_next = None /\ data_next = None
    /\ computer = <<>> /\ threads = <<>> /\ importer = <<>> /\ part_iter = <<>>
    /\ pc = "vl_loop"
    /\ call_input \in UNION {[1..n -> LineItems] : n \in 0..MaxLines}
    /\ idx = 0
    /\ hasher = <<>>
    /\ call_result = [validation |-> ValidationDefault, last_digest |-> SHA1_DIGEST_MIN]
    /\ log = [valid |-> <<>>]

ValidateLinesUnchanged ==
    UNCHANGED <<line, text, parsed, validated, raw, paths, flat_input, data_input,
                flat_output, data_output, flat_next, data_next, computer, threads,
                importer, part_iter, call_input>>

\* The arms of the match on snapshot_line.validate(&mut hasher): what becomes
\* of the validation, last_digest and the digests counted valid.
Validated(st, valid, l, v) ==
    IF v.tag = "Err"
    THEN [st |-> [st EXCEPT !.validation.unexpected_digests =
                                Append(@, <<l.digest, v.val>>)],
          valid |-> valid]
    ELSE IF DigestLess(st.last_digest, l.digest)
    THEN [st |-> [st EXCEPT !.validation.valid_count = @ + 1,
                            !.last_digest = l.digest],
          valid |-> Append(valid, l.digest)]
    ELSE [st |-> [st EXCEPT !.validation.out_of_order = Append(@, l.digest)],
          valid |-> valid]

\* The body of the for loop on the i-th item (from 0), a line that was read.
ValidateLine(i, p) ==
    IF p.tag = "Panic"
    THEN pc' = "vl_panicked" /\ UNCHANGED <<call_result, hasher, log, idx>>
    ELSE IF p.tag = "Err"
    THEN /\ call_result' = [call_result EXCEPT !.validation.invalid_lines =
                                                    Append(@, i + 1)]
         /\ idx' = i + 1
         /\ UNCHANGED <<pc, hasher, log>>
    ELSE \E v \in {Validate(p.val, hasher)} :
         \E r \in {Validated(call_result, log.valid, p.val, v.result)} :
            /\ hasher' = v.hasher
            /\ call_result' = r.st
            /\ log' = [valid |-> r.valid]
            /\ idx' = i + 1
            /\ UNCHANGED pc

\* for (i, line) in lines.enumerate() { let line = line?; match SnapshotLine::parse(&line) ..
ValidateLinesLoop ==
    /\ pc = "vl_loop"
    /\ idx < Len(call_input)
    /\ IF call_input[idx + 1].tag = "Err"
       THEN pc' = "vl_err" /\ UNCHANGED <<call_result, hasher, log, idx>>
       ELSE ValidateLine(idx, Parse(call_input[idx + 1].val))
    /\ ValidateLinesUnchanged

\* Ok(validation)
ValidateLinesReturn ==
    /\ pc = "vl_loop"
    /\ idx = Len(call_input)
    /\ pc' = "vl_returned"
    /\ UNCHANGED <<call_result, hasher, log, idx>>
    /\ ValidateLinesUnchanged

ValidateLinesNext == ValidateLinesLoop \/ ValidateLinesReturn

SpecValidateLines == ValidateLinesInit /\ [][ValidateLinesNext]_vars

\* The 1-based numbers of the lines among the first n that are no snapshot
\* lines.
RECURSIVE NotSnapshotLines(_, _)
NotSnapshotLines(items, n) ==
    IF n = 0 THEN <<>>
    ELSE NotSnapshotLines(items, n - 1)
            \o (IF Parse(items[n].val).tag = "Ok" THEN <<>> ELSE <<n>>)

\* C16: validate_lines takes the lines in file order and puts each in exactly
\* one class, a line that is no snapshot line among the invalid lines under
\* its 1-based number; the digests counted valid strictly ascend; and
\* is_successful holds only if every line was counted valid.
C16_EachLineClassified ==
    /\ pc # "vl_panicked"
    /\ pc \in {"vl_loop", "vl_returned"} =>
        /\ call_result.validation.valid_count
                + Len(call_result.validation.invalid_lines)
                + Len(call_result.validation.unexpected_digests)
                + Len(call_result.validation.out_of_order) = idx
        /\ call_result.validation.invalid_lines = NotSnapshotLines(call_input, idx)
        /\ Len(log.valid) = call_result.validation.valid_count
        /\ StrictlyAscending(log.valid)
        /\ \A k \in 1..Len(call_result.validation.out_of_order) :
                \E j \in 1..Len(log.valid) :
                    ~DigestLess(log.valid[j], call_result.validation.out_of_order[k])
    /\ (pc = "vl_returned" /\ IsSuccessful(call_result.validation))
        => call_result.validation.valid_count = Len(call_input)

(***************************************************************************)
(* SnapshotLine::validate called twice on one line with one sha1::Sha1,    *)
(* fresh before the first call: validated holds what the first call        *)
(* returned, call_result what the second returned.                         *)
(***************************************************************************)
\* The lines validated: SnapshotLine::new of each raw content under the
\* digest of each raw content, its own included.
ValidatedLines ==
    {New(Sha1(d), c).val :
        c \in {r \in RawContents : New(Sha1(r), r).tag = "Ok"}, d \in RawContents}

TwiceInit ==
    /\ ProgramIdle
    /\ pc = "twice_call"
    /\ call_input \in ValidatedLines
    /\ call_result = None /\ computer = <<>> /\ threads = <<>> /\ importer = <<>> /\ part_iter = <<>>

TwiceUnchanged ==
    UNCHANGED <<line, text, parsed, raw, paths, flat_input, data_input, flat_output,
                data_output, flat_next, data_next, idx, log, call_input, computer,
                threads, importer, part_iter>>

\* let first = line.validate(&mut hasher);
TwiceFirst ==
    /\ pc = "twice_call"
    /\ \E v \in {Validate(call_input, hasher)} :
            /\ validated' = Some(v.result)
            /\ hasher' = v.hasher
    /\ pc' = "twice_first"
    /\ UNCHANGED call_result
    /\ TwiceUnchanged

\* let second = line.validate(&mut hasher);
TwiceSecond ==
    /\ pc = "twice_first"
    /\ \E v \in {Validate(call_input, hasher)} :
            /\ call_result' = Some(v.result)
            /\ hasher' = v.hasher
    /\ pc' = "twice_second"
    /\ UNCHANGED validated
    /\ TwiceUnchanged

TwiceNext == TwiceFirst \/ TwiceSecond

SpecTwice == TwiceInit /\ [][TwiceNext]_vars

\* C17: validate leaves the hashing context reset, whether it returns Ok or
\* Err(computed digest), and a second validate of the same line with the
\* same context returns what the first returned.
C17_ValidateTwice ==
    /\ pc \in {"twice_first", "twice_second"} => hasher = <<>>
    /\ pc = "twice_second" => call_result[1] = validated[1]

C17_Witness ==
    /\ pc = "twice_second"
    /\ validated[1].tag = "Err"
    /\ call_result[1] = Err(Sha1(call_input.content \o ValidateTrailer(call_input)))

(***************************************************************************)
(* cas::import::File (wbm/src/cas/import.rs).  A path is the sequence of   *)
(* its components; a component is its text and whether it is UTF-8.        *)
(***************************************************************************)
UPPERCASE ==
    <<"A", "B", "C", "D", "E", "F", "G", "H", "I", "J", "K", "L", "M", "N", "O",
      "P", "Q", "R", "S", "T", "U", "V", "W", "X", "Y", "Z">>
LOWERCASE ==
    <<"a", "b", "c", "d", "e", "f", "g", "h", "i", "j", "k", "l", "m", "n", "o",
      "p", "q", "r", "s", "t", "u", "v", "w", "x", "y", "z">>

\* A text left as it is written.
KeepCase(s) == s

\* str::to_ascii_lowercase
ToAsciiLowercase(s) ==
    <<>> \o [k \in 1..Len(s) |->
                IF IndexOf(UPPERCASE, s[k]) > 0 THEN LOWERCASE[IndexOf(UPPERCASE, s[k])]
                ELSE s[k]]

\* str::split(sep): the texts between the separators, one more than there
\* are separators.
RECURSIVE Split(_, _)
Split(s, sep) ==
    IF IndexOf(s, sep) = 0 THEN <<s>>
    ELSE <<SubSeq(s, 1, IndexOf(s, sep) - 1)>>
            \o Split(SubSeq(s, IndexOf(s, sep) + 1, Len(s)), sep)

\* Iterator::take(n)
Take(seq, n) == SubSeq(seq, 1, IF Len(seq) < n THEN Len(seq) ELSE n)

ZST == <<"z", "s", "t">>
GZ == <<"g", "z">>

Component(t, utf8) == [text |-> t, utf8 |-> utf8]

\* Path::file_name and OsStr::to_str: the text of the last component, if
\* there is one and it is UTF-8.
FileNameStr(path) ==
    IF Len(path) = 0 THEN None
    ELSE IF ~path[Len(path)].utf8 THEN None
    ELSE Some(path[Len(path)].text)

FileValid(path, compression_type, digest) ==
    [tag |-> "Valid", path |-> path, compression_type |-> compression_type,
     digest |-> digest]

\* File::skipped
FileSkipped(path) ==
    [tag |-> "Skipped", path |-> path, compression_type |-> None, digest |-> <<>>]

\* The match on parts.len(): the compression type, or Err where File::new
\* returns Skipped at once.
CompressionTypeOf(parts) ==
    IF Len(parts) = 1 THEN Ok(None)
    ELSE IF Len(parts) # 2 THEN Err("parts")
    ELSE IF ToAsciiLowercase(parts[2]) = ZST THEN Ok(Some("Zstd"))
    ELSE IF ToAsciiLowercase(parts[2]) = GZ THEN Ok(Some("Gzip"))
    ELSE Err("extension")

FileOfParts(path, parts, compression_type, digest) ==
    IF compression_type.tag = "Err" THEN FileSkipped(path)
    ELSE IF digest.tag = "Err" THEN FileSkipped(path)
    ELSE FileValid(path, compression_type.val, digest.val)

FileOfName(path, parts) ==
    FileOfParts(path, parts, CompressionTypeOf(parts), DigestFromStr(parts[1]))

\* File::new
FileNew(path) ==
    IF FileNameStr(path) = None THEN FileSkipped(path)
    ELSE FileOfName(path, Take(Split(FileNameStr(path)[1], "."), 3))

\* What follows the digest in the file names tried.
FileSuffixes ==
    {<<>>, <<".">>, <<".">> \o ZST, <<".", "Z", "S", "T">>, <<".", "Z", "s", "t">>,
     <<".">> \o GZ, <<".", "G", "Z">>, <<".", "g", "Z">>, <<".", "t", "x", "t">>,
     <<".", "z", "s", "t", "d">>, <<".", "g">>, <<".">> \o ZST \o <<".">> \o GZ,
     <<".">> \o GZ \o <<".">>, <<".", ".">> \o GZ, ZST}

\* What stands for the digest in them: two digests, a digest with a letter
\* in lower case, a digest cut short, and nothing.
FileStems ==
    {TestDigestText, ZeroDigestText, ReplaceAt(TestDigestText, 1, "z"),
     SubSeq(TestDigestText, 1, DIGEST_LEN - 1), <<>>}

\* A directory the files are in.
ExampleDir == Component(<<"d">>, TRUE)

FilePaths ==
    {<<>>} \cup
    {dir \o <<Component(stem \o suffix, utf8)>> :
        dir \in {<<>>, <<ExampleDir>>}, stem \in FileStems, suffix \in FileSuffixes,
        utf8 \in BOOLEAN}

FileInit ==
    /\ ProgramIdle
    /\ pc = "file_call"
    /\ call_input \in FilePaths
    /\ call_result = <<>> /\ computer = <<>> /\ threads = <<>> /\ importer = <<>> /\ part_iter = <<>>

\* File::new(path)
FileNewCall ==
    /\ pc = "file_call"
    /\ call_result' = FileNew(call_input)
    /\ pc' = "file_made"
    /\ ProgramUnchanged
    /\ UNCHANGED <<call_input, computer, threads, importer, part_iter>>

FileNext == FileNewCall

SpecFile == FileInit /\ [][FileNext]_vars

\* The position of a letter in the alphabet, whatever its case; 0 for what is
\* no ASCII letter.
LetterIndex(ch) ==
    IF IndexOf(UPPERCASE, ch) > 0 THEN IndexOf(UPPERCASE, ch) ELSE IndexOf(LOWERCASE, ch)

\* Two texts that differ at most in the case of their ASCII letters.
EqIgnoreAsciiCase(a, b) ==
    /\ Len(a) = Len(b)
    /\ \A k \in 1..Len(a) :
            \/ a[k] = b[k]
            \/ LetterIndex(a[k]) > 0 /\ LetterIndex(a[k]) = LetterIndex(b[k])

\* The name is a digest alone or a digest, a dot and zst or gz in any case.
IsItemFileName(t) ==
    /\ Len(t) >= DIGEST_LEN
    /\ IsDigestText(SubSeq(t, 1, DIGEST_LEN))
    /\ \/ Len(t) = DIGEST_LEN
       \/ /\ t[DIGEST_LEN + 1] = "."
          /\ \/ EqIgnoreAsciiCase(SubSeq(t, DIGEST_LEN + 2, Len(t)), ZST)
             \/ EqIgnoreAsciiCase(SubSeq(t, DIGEST_LEN + 2, Len(t)), GZ)

\* The compression a file name of that form stands for.
ItemCompression(t) ==
    IF Len(t) = DIGEST_LEN THEN None
    ELSE IF Len(t) = DIGEST_LEN + 1 + Len(ZST) THEN Some("Zstd")
    ELSE Some("Gzip")

\* C19: File::new returns a File for every path: Valid, with the digest of
\* the name and the compression of its extension, exactly when the file name
\* is UTF-8 and is a 32-character Base32 digest alone or followed by one
\* extension that is zst or gz in any case, and Skipped for every other path.
C19_FileClassifiedByName ==
    pc = "file_made" =>
        /\ call_result.tag \in {"Valid", "Skipped"}
        /\ call_result.path = call_input
        /\ (call_result.tag = "Valid") =
                (/\ Len(call_input) > 0
                 /\ call_input[Len(call_input)].utf8
                 /\ IsItemFileName(call_input[Len(call_input)].text))
        /\ call_result.tag = "Valid" =>
                /\ DigestToString(call_result.digest)
                        = SubSeq(call_input[Len(call_input)].text, 1, DIGEST_LEN)
                /\ call_result.compression_type
                        = ItemCompression(call_input[Len(call_input)].text)

C19_Witness ==
    /\ pc = "file_made"
    /\ call_result.tag = "Valid"
    /\ call_result.compression_type = Some("Gzip")
    /\ call_input[Len(call_input)].text = TestDigestText \o <<".", "g", "Z">>

(***************************************************************************)
(* cas::import::Importer (wbm/src/cas/import.rs).  A directory is the      *)
(* sequence of the entries its ReadDir yields; the k-th is named by the    *)
(* digit k.  An entry is a file, a directory (which read_dir may fail to   *)
(* open) or an error of ReadDir::next.  A ReadDir is the path of its       *)
(* directory, its entries and how many it has yielded.  call_input is the  *)
(* walk root, call_result the items next() has returned so far.            *)
(***************************************************************************)
MaxEntries == 2

FileEntry == [kind |-> "file", entries |-> <<>>, opens |-> TRUE]
ErrorEntry == [kind |-> "error", entries |-> <<>>, opens |-> TRUE]
DirEntry(entries, opens) == [kind |-> "dir", entries |-> entries, opens |-> opens]

\* The directories without subdirectories.
LeafDirs == UNION {[1..n -> {FileEntry, ErrorEntry}] : n \in 0..MaxEntries}

\* The walk roots: directories of files, errors and directories without
\* subdirectories, one of which cannot be opened; and a root that cannot be
\* opened.
WalkRoots ==
    {DirEntry(<<>>, FALSE)} \cup
    {DirEntry(entries, TRUE) :
        entries \in UNION {[1..n -> {FileEntry, ErrorEntry, DirEntry(<<>>, FALSE)}
                                        \cup {DirEntry(d, TRUE) : d \in LeafDirs}] :
                            n \in 0..MaxEntries}}

\* The name of the k-th entry of a directory.
EntryName(k) == Component(<<DIGITS[k + 1]>>, TRUE)

\* std::fs::read_dir(path) on a directory that opens.
ReadDir(path, entries) == [path |-> path, entries |-> entries, yielded |-> 0]

Running(stack) == [tag |-> "Running", stack |-> stack, error |-> None]
Failed(error) == [tag |-> "Failed", stack |-> <<>>, error |-> error]

\* Importer::new
ImporterNew(base) ==
    IF base.opens THEN Running(<<ReadDir(<<>>, base.entries)>>)
    ELSE Failed(Some("io"))

\* Importer::next on Running(stack): the stack it leaves and what it returns.
RECURSIVE RunningNext(_)
RunningEntry(stack, current, next, path) ==
    IF next.kind = "error"
    THEN [stack |-> stack, item |-> Some(Err("io"))]
    ELSE IF next.kind = "file"
    THEN [stack |-> Append(stack, current), item |-> Some(Ok(FileNew(path)))]
    ELSE IF ~next.opens
    THEN [stack |-> Append(stack, current), item |-> Some(Err("io"))]
    ELSE RunningNext(Append(Append(stack, current), ReadDir(path, next.entries)))

\* The None arm returning None instead of going on with the directory below.
RunningPoppedEndsWalk(stack, current) ==
    IF current.yielded = Len(current.entries) THEN [stack |-> stack, item |-> None]
    ELSE RunningEntry(stack, [current EXCEPT !.yielded = @ + 1],
                      current.entries[current.yielded + 1],
                      current.path \o <<EntryName(current.yielded + 1)>>)

RunningPopped(stack, current) ==
    IF current.yielded = Len(current.entries) THEN RunningNext(stack)
    ELSE RunningEntry(stack, [current EXCEPT !.yielded = @ + 1],
                      current.entries[current.yielded + 1],
                      current.path \o <<EntryName(current.yielded + 1)>>)

RunningNext(stack) ==
    IF stack = <<>> THEN [stack |-> stack, item |-> None]
    ELSE CHOOSE r \in {RunningPopped(rest, current) :
                            rest \in {SubSeq(stack, 1, Len(stack) - 1)},
                            current \in {stack[Len(stack)]}} : TRUE

\* impl Iterator for Importer: next
ImporterNext(imp) ==
    IF imp.tag = "Running"
    THEN [importer |-> Running(RunningNext(imp.stack).stack),
          item |-> RunningNext(imp.stack).item]
    ELSE [importer |-> Failed(None),
          item |-> IF imp.error = None THEN None ELSE Some(Err("io"))]

WalkInit ==
    /\ ProgramIdle
    /\ pc = "walk_new"
    /\ call_input \in WalkRoots
    /\ call_result = <<>> /\ computer = <<>> /\ threads = <<>>
    /\ importer = <<>> /\ part_iter = <<>>

\* let mut importer = Importer::new(base);
WalkNew ==
    /\ pc = "walk_new"
    /\ importer' = ImporterNew(call_input)
    /\ pc' = "walking"
    /\ ProgramUnchanged
    /\ UNCHANGED <<call_input, call_result, computer, threads, part_iter>>

\* importer.next(), until it returns None
WalkNextCall ==
    /\ pc = "walking"
    /\ \E r \in {ImporterNext(importer)} :
            /\ importer' = r.importer
            /\ IF r.item = None
               THEN pc' = "walked" /\ UNCHANGED call_result
               ELSE call_result' = Append(call_result, r.item[1]) /\ UNCHANGED pc
    /\ ProgramUnchanged
    /\ UNCHANGED <<call_input, computer, threads, part_iter>>

WalkNext == WalkNew \/ WalkNextCall

SpecWalk == WalkInit /\ [][WalkNext]_vars

\* The paths of the files under a directory whose subdirectories are taken
\* if they open.
RECURSIVE FilesUnder(_, _)
FilesUnder(path, entries) ==
    UNION {IF entries[k].kind = "file" THEN {path \o <<EntryName(k)>>}
           ELSE IF entries[k].kind = "dir" /\ entries[k].opens
           THEN FilesUnder(path \o <<EntryName(k)>>, entries[k].entries)
           ELSE {} : k \in 1..Len(entries)}

\* The entries under a directory for which the walk has an error to report.
RECURSIVE ErrorsUnder(_)
CountErrors(entry) ==
    IF entry.kind = "error" THEN 1
    ELSE IF entry.kind = "dir" /\ ~entry.opens THEN 1
    ELSE IF entry.kind = "dir" THEN ErrorsUnder(entry.entries)
    ELSE 0

ErrorsUnder(entries) ==
    IF entries = <<>> THEN 0 ELSE CountErrors(Head(entries)) + ErrorsUnder(Tail(entries))

\* C18: an error for one entry or for one subdirectory that does not open
\* ends nothing but that entry: when the walk is over every file under the
\* root was yielded, and every such error once; only a root that does not
\* open ends the walk, after that one error.
C18_WalkContinuesAfterError ==
    pc = "walked" =>
        IF call_input.opens
        THEN /\ {call_result[k].val.path :
                    k \in {j \in 1..Len(call_result) : call_result[j].tag = "Ok"}}
                    = FilesUnder(<<>>, call_input.entries)
             /\ Cardinality({j \in 1..Len(call_result) : call_result[j].tag = "Err"})
                    = ErrorsUnder(call_input.entries)
        ELSE call_result = <<Err("io")>>

(***************************************************************************)
(* Surt::domain_name_parts and Surt::canonical_url (core/src/surt.rs).     *)
(* A DomainNamePartIter is the text it has yet to cut (source) and the     *)
(* label lengths its slice::Iter has yet to yield, taken from the front by *)
(* next and from the back by next_back.  part_iter holds the iterator, the *)
(* labels it has yielded and the calls that were made on it.               *)
(***************************************************************************)
RECURSIVE Sum(_)
Sum(lens) == IF lens = <<>> THEN 0 ELSE Head(lens) + Sum(Tail(lens))

\* Surt::path_start.  The sum of the u8 lengths stays far below 256 for the
\* texts tried here.
PathStart(surt) ==
    Len(surt.domain_name_part_lens) + Sum(surt.domain_name_part_lens)

\* Surt::domain_name_parts
DomainNameParts(surt) ==
    IF ~InRange(surt.source, 0, PathStart(surt) - 1) THEN Panic
    ELSE Ok([source |-> Slice(surt.source, 0, PathStart(surt) - 1),
             domain_name_part_lens |-> surt.domain_name_part_lens])

\* Surt::path
SurtPath(surt) ==
    IF ~InRange(surt.source, PathStart(surt), Len(surt.source)) THEN Panic
    ELSE Ok(Slice(surt.source, PathStart(surt), Len(surt.source)))

\* DomainNamePartIter::next: the iterator after the call and the item.
PartNext(it) ==
    IF it.domain_name_part_lens = <<>> THEN Ok([iter |-> it, item |-> None])
    ELSE IF ~InRange(it.source, 0, Head(it.domain_name_part_lens)) THEN Panic
    ELSE Ok([iter |-> [source |-> Slice(it.source, Head(it.domain_name_part_lens),
                                        Len(it.source)),
                       domain_name_part_lens |-> Tail(it.domain_name_part_lens)],
             item |-> Some(Slice(it.source, 0, Head(it.domain_name_part_lens)))])

\* The length next_back takes off the back of the slice::Iter.
LastLen(it) == it.domain_name_part_lens[Len(it.domain_name_part_lens)]

\* DomainNamePartIter::next_back: source is assigned the whole of itself.
PartNextBack(it) ==
    IF it.domain_name_part_lens = <<>> THEN Ok([iter |-> it, item |-> None])
    ELSE IF LastLen(it) > Len(it.source) THEN Panic
    ELSE Ok([iter |-> [source |-> Slice(it.source, 0, Len(it.source)),
                       domain_name_part_lens |->
                           SubSeq(it.domain_name_part_lens, 1,
                                  Len(it.domain_name_part_lens) - 1)],
             item |-> Some(Slice(it.source, Len(it.source) - LastLen(it),
                                 Len(it.source)))])

\* for domain_part in parts.rev() { write domain_part, write "." }: what the
\* loop writes, or Panic.
RECURSIVE WriteRev(_)
WriteRev(it) ==
    IF PartNextBack(it).tag = "Panic" THEN Panic
    ELSE IF PartNextBack(it).val.item = None THEN Ok(<<>>)
    ELSE IF WriteRev(PartNextBack(it).val.iter).tag = "Panic" THEN Panic
    ELSE Ok(PartNextBack(it).val.item[1] \o <<".">>
                \o WriteRev(PartNextBack(it).val.iter).val)

HTTPS_PREFIX == <<"h", "t", "t", "p", "s", ":", "/", "/">>

\* The body of SurtCanonicalUrl::fmt once parts.next() has returned first.
CanonicalUrlAfterFirst(surt, first) ==
    IF first.tag = "Panic" THEN Panic
    ELSE IF WriteRev(first.val.iter).tag = "Panic" \/ SurtPath(surt).tag = "Panic"
    THEN Panic
    ELSE Ok(HTTPS_PREFIX \o WriteRev(first.val.iter).val
                \o (IF first.val.item = None THEN <<>> ELSE first.val.item[1])
                \o SurtPath(surt).val)

\* surt.canonical_url().to_string()
CanonicalUrl(surt) ==
    IF DomainNameParts(surt).tag = "Panic" THEN Panic
    ELSE CanonicalUrlAfterFirst(surt, PartNext(DomainNameParts(surt).val))

\* The most labels a domain name of the model has.
MaxLabels == 3

SurtLabels == {<<"a">>, <<"b", "c">>, <<"d", "-", "e">>}

SurtPaths == {<<>>, <<"/">>, <<"/", "p">>}

\* The labels joined by sep.
RECURSIVE Join(_, _)
Join(labels, sep) ==
    IF labels = <<>> THEN <<>>
    ELSE IF Len(labels) = 1 THEN labels[1]
    ELSE labels[1] \o <<sep>> \o Join(Tail(labels), sep)

\* The SURT texts l1,...,ln)path
DomainSurtTexts ==
    {Join(ls, ",") \o <<")">> \o p :
        ls \in UNION {[1..n -> SurtLabels] : n \in 1..MaxLabels}, p \in SurtPaths}

SurtPartsInit ==
    /\ ProgramIdle
    /\ pc = "surt_call"
    /\ call_input \in DomainSurtTexts
    /\ call_result = <<>> /\ computer = <<>> /\ threads = <<>> /\ importer = <<>>
    /\ part_iter = None

SurtPartsUnchanged ==
    /\ ProgramUnchanged
    /\ UNCHANGED <<pc, call_input, call_result, computer, threads, importer>>

\* let mut parts = surt.domain_name_parts();
SurtDomainNameParts ==
    /\ pc = "surt_parsed"
    /\ call_result.tag = "Ok"
    /\ DomainNameParts(call_result.val).tag = "Ok"
    /\ part_iter' = Some([iter |-> DomainNameParts(call_result.val).val,
                          yielded |-> <<>>, calls |-> <<>>, ended |-> FALSE])
    /\ SurtPartsUnchanged

\* What part_iter becomes by a call that returned r.
PartCalled(call, r) ==
    Some([iter |-> r.iter,
          yielded |-> part_iter[1].yielded \o r.item,
          calls |-> IF r.item = None THEN part_iter[1].calls
                    ELSE Append(part_iter[1].calls, call),
          ended |-> r.item = None])

\* parts.next()
SurtPartNext ==
    /\ part_iter # None
    /\ ~part_iter[1].ended
    /\ PartNext(part_iter[1].iter).tag = "Ok"
    /\ part_iter' = PartCalled("next", PartNext(part_iter[1].iter).val)
    /\ SurtPartsUnchanged

\* parts.next_back()
SurtPartNextBack ==
    /\ part_iter # None
    /\ ~part_iter[1].ended
    /\ PartNextBack(part_iter[1].iter).tag = "Ok"
    /\ part_iter' = PartCalled("next_back", PartNextBack(part_iter[1].iter).val)
    /\ SurtPartsUnchanged

SurtPartsNext ==
    \/ SurtParse
    \/ SurtDomainNameParts
    \/ SurtPartNext
    \/ SurtPartNextBack

SpecSurtParts == SurtPartsInit /\ [][SurtPartsNext]_vars

\* The labels l1, ..., ln of the text l1,...,ln)path, read off the text.
LabelsOf(s) == Split(SubSeq(s, 1, IndexOf(s, ")") - 1), ",")

IsPrefix(p, s) == Len(p) <= Len(s) /\ p = SubSeq(s, 1, Len(p))

OnlyCalls(call) ==
    \A k \in 1..Len(part_iter[1].calls) : part_iter[1].calls[k] = call

\* C21: iterated forward only, domain_name_parts() yields l1, l2, ..., ln
\* and then ends; iterated backward only, it yields ln, ..., l1 and then
\* ends; a new call of domain_name_parts() starts from the first label again.
C21_PartsInStoredOrder ==
    part_iter # None =>
        /\ OnlyCalls("next") =>
              /\ IsPrefix(part_iter[1].yielded, LabelsOf(call_input))
              /\ part_iter[1].ended => part_iter[1].yielded = LabelsOf(call_input)
        /\ OnlyCalls("next_back") =>
              /\ IsPrefix(part_iter[1].yielded, Reverse(LabelsOf(call_input)))
              /\ part_iter[1].ended =>
                    part_iter[1].yielded = Reverse(LabelsOf(call_input))

SurtUrlInit ==
    /\ ProgramIdle
    /\ pc = "surt_url_call"
    /\ call_input \in DomainSurtTexts
    /\ call_result = <<>> /\ computer = <<>> /\ threads = <<>> /\ importer = <<>>
    /\ part_iter = None

\* input.parse::<Surt>().unwrap().canonical_url().to_string()
SurtCanonicalUrl ==
    /\ pc = "surt_url_call"
    /\ call_result' = IF SurtParseStr(call_input).tag = "Ok"
                      THEN CanonicalUrl(SurtParseStr(call_input).val)
                      ELSE Panic
    /\ pc' = "surt_url_done"
    /\ ProgramUnchanged
    /\ UNCHANGED <<call_input, computer, threads, importer, part_iter>>

SurtUrlNext == SurtCanonicalUrl

SpecSurtUrl == SurtUrlInit /\ [][SurtUrlNext]_vars

\* C22: canonical_url() renders https:// followed by the labels in the
\* reverse of stored order joined by ".", followed by the path, for any
\* number of labels.
C22_CanonicalUrl ==
    pc = "surt_url_done" =>
        /\ call_result.tag = "Ok"
        /\ call_result.val =
              HTTPS_PREFIX \o Join(Reverse(LabelsOf(call_input)), ".")
                  \o SubSeq(call_input, IndexOf(call_input, ")") + 1,
                            Len(call_input))

(***************************************************************************)
(* SnapshotLine::new: what it records of the end of the raw content        *)
(***************************************************************************)
\* The raw content ends with \r\r\n after a byte that is neither CR nor LF.
EndsWithDefaultTrailer(c) ==
    /\ Len(c) >= 4
    /\ SubSeq(c, Len(c) - 2, Len(c)) = DEFAULT_CLOSING_WHITESPACE
    /\ ~IsLineBreak(c[Len(c) - 3])

\* The index of the last character of c that is neither CR nor LF, 0 when
\* there is none.
LastPayloadIndex(c) ==
    IF \A k \in 1..Len(c) : IsLineBreak(c[k]) THEN 0
    ELSE CHOOSE k \in 1..Len(c) :
            ~IsLineBreak(c[k]) /\ \A j \in (k + 1)..Len(c) : IsLineBreak(c[j])

\* The maximal trailing run of CR/LF characters of c, as it stands in c.
TrailingRun(c) == SubSeq(c, LastPayloadIndex(c) + 1, Len(c))

\* C25: SnapshotLine::new sets closing_whitespace to None exactly when the
\* raw content ends with \r\r\n preceded by a byte that is neither CR nor LF,
\* and otherwise to the maximal trailing CR/LF run in the order of the
\* content; in both cases content is the raw content without that trailer.
C25_NewSplitsTrailer ==
    IsSome(raw) =>
        /\ IsSome(line)
        /\ (line[1].closing_whitespace = None) = EndsWithDefaultTrailer(raw[1])
        /\ ~EndsWithDefaultTrailer(raw[1]) =>
              line[1].closing_whitespace = Some(TrailingRun(raw[1]))
        /\ line[1].content = SubSeq(raw[1], 1, LastPayloadIndex(raw[1]))

(***************************************************************************)
(* SnapshotLine::parse on lines that are not of the line format            *)
(***************************************************************************)
\* A line of the format with every optional field.
FullLine ==
    StoredLine(Payload(DATA_PREFIX, 1), <<LF>>, Some(Sha1(<<"x">>)),
               Some(<<2018, 5, 25, 1, 2, 3>>), Some(ExampleUrl))

FullLineText == Display(FullLine)

\* The length of FullLineText up to the key of its content field.
ContentKeyStart ==
    Len(FullLineText) - (CONTENT_KEY_LEN + 3 + Len(FullLine.content) + 1)

\* FullLineText cut short before its content field: in the digest, in a
\* key, in expected_digest, in closing_whitespace (no closing quote), in
\* the timestamp, in the url (no closing quote).
TruncatedLines == {SubSeq(FullLineText, 1, n) : n \in 0..ContentKeyStart}

\* FullLineText with one character of {"digest":" replaced.
MiskeyedLines == {ReplaceAt(FullLineText, k, "x") : k \in 1..(DIGEST_KEY_LEN + 5)}

\* FullLineText with one character of a value replaced by one that the
\* value cannot hold: in the digest, the expected digest, the
\* closing_whitespace, the timestamp.
DIGEST_AT == DIGEST_KEY_LEN + 5

EXPECTED_DIGEST_AT == DIGEST_AT + DIGEST_LEN + 3 + EXPECTED_DIGEST_KEY_LEN + 3

CLOSING_WHITESPACE_AT ==
    EXPECTED_DIGEST_AT + DIGEST_LEN + 3 + CLOSING_WHITESPACE_KEY_LEN + 3

TIMESTAMP_AT ==
    CLOSING_WHITESPACE_AT + 2 * Len(FullLine.closing_whitespace[1]) + 3
        + TIMESTAMP_KEY_LEN + 3

MisvaluedLines ==
    {ReplaceAt(FullLineText, at + 1, "!") :
        at \in {DIGEST_AT, EXPECTED_DIGEST_AT, CLOSING_WHITESPACE_AT,
                CLOSING_WHITESPACE_AT + 1, TIMESTAMP_AT}}

BadLines == TruncatedLines \cup MiskeyedLines \cup MisvaluedLines

ParseInit ==
    /\ ProgramIdle
    /\ pc = "parse_call"
    /\ call_input \in BadLines
    /\ call_result = <<>> /\ computer = <<>> /\ threads = <<>> /\ importer = <<>>
    /\ part_iter = None

\* SnapshotLine::parse(line)
ParseCall ==
    /\ pc = "parse_call"
    /\ call_result' = Parse(call_input)
    /\ pc' = "parse_done"
    /\ ProgramUnchanged
    /\ UNCHANGED <<call_input, computer, threads, importer, part_iter>>

ParseNext == ParseCall

SpecParse == ParseInit /\ [][ParseNext]_vars

\* C26: SnapshotLine::parse returns Err(InvalidLine), without a panic, for a
\* line that violates the line format: one shorter than the digest prefix,
\* one whose closing_whitespace or url has no closing quote, one with a
\* truncated timestamp or expected_digest, one that does not begin with
\* {"digest":".
C26_BadLineIsInvalidLine ==
    pc = "parse_done" =>
        call_result.tag = "Err" /\ call_result.val = "InvalidLine"

(***************************************************************************)
(* A store written by SnapshotWriter::write and read back by               *)
(* SnapshotReader (wxj/src/lines/io.rs).  The bytes of the store are the   *)
(* texts given to writeln!, each followed by a line feed; BufRead::lines   *)
(* cuts them at every line feed and drops a carriage return before it.     *)
(* flat_output is the writer, log.calls the calls made on it, call_result  *)
(* what the reader yields for the store once it is read back.              *)
(***************************************************************************)
\* Raw contents Merge routes to a store: a one-line payload and its trailer.
AcceptedContents ==
    {c \in {Payload(p, 1) \o t : p \in {FLAT_PREFIX, DATA_PREFIX},
                                 t \in {<<CR, CR, LF>>, <<LF>>, <<CR, LF>>}} :
        Classify(c) # "skip"}

\* What writeln! has put into underlying.
WrittenBytes(w) ==
    Concat([k \in 1..Len(w.underlying) |-> w.underlying[k] \o <<LF>>])

StripCarriageReturn(l) ==
    IF l # <<>> /\ l[Len(l)] = CR THEN SubSeq(l, 1, Len(l) - 1) ELSE l

\* BufRead::lines
RECURSIVE BufLines(_)
BufLines(bytes) ==
    IF bytes = <<>> THEN <<>>
    ELSE IF IndexOf(bytes, LF) = 0 THEN <<bytes>>
    ELSE <<StripCarriageReturn(SubSeq(bytes, 1, IndexOf(bytes, LF) - 1))>>
            \o BufLines(SubSeq(bytes, IndexOf(bytes, LF) + 1, Len(bytes)))

\* for snapshot_line in SnapshotReader { .. }: what next() returns, line by
\* line, up to a panic of SnapshotLine::parse.
RECURSIVE ReadAll(_)
ReadAll(lines) ==
    IF lines = <<>> THEN <<>>
    ELSE IF Parse(Head(lines)).tag = "Panic" THEN <<Panic>>
    ELSE <<Parse(Head(lines))>> \o ReadAll(Tail(lines))

ReadBackInit ==
    /\ line = None /\ text = None /\ parsed = None /\ validated = None
    /\ raw = None /\ hasher = <<>>
    /\ paths = <<>> /\ flat_input = <<>> /\ data_input = <<>>
    /\ flat_output = WriterCreate
    /\ data_output = WriterCreate
    /\ flat_next = None /\ data_next = None /\ idx = 0
    /\ pc = "store_open"
    /\ CallIdle
    /\ log = [flat_store |-> <<>>, data_store |-> <<>>, fresh |-> <<>>, calls |-> <<>>]

\* writer.write(digest, content.as_bytes()) with the digest of the content
ReadBackWrite ==
    /\ pc = "store_open"
    /\ Len(log.calls) < MaxCalls
    /\ \E content \in AcceptedContents, io_ok \in BOOLEAN :
       \E r \in {Write(flat_output, Sha1(content), content, io_ok)} :
            /\ flat_output' = r.writer
            /\ log' = [log EXCEPT
                         !.calls = Append(@, Call("write", Sha1(content), r.result))]
    /\ UNCHANGED pc
    /\ WriterUnchanged

\* The store is closed and read from its first line to its last.
ReadBackRead ==
    /\ pc = "store_open"
    /\ call_result' = ReadAll(BufLines(WrittenBytes(flat_output)))
    /\ pc' = "store_read"
    /\ UNCHANGED <<line, text, parsed, hasher, validated, raw, paths, flat_input,
                   data_input, flat_output, data_output, flat_next, data_next,
                   idx, log, call_input, computer, threads, importer, part_iter>>

ReadBackNext == ReadBackWrite \/ ReadBackRead

SpecReadBack == ReadBackInit /\ [][ReadBackNext]_vars

\* C27: the reader yields one SnapshotLine for each record write has
\* written, in the order of the writes, with the digest that was written,
\* and each passes validate.
C27_OneLinePerRecord ==
    pc = "store_read" =>
        /\ Len(call_result) = Len(WritingCalls(log.calls))
        /\ \A k \in 1..Len(call_result) :
              /\ call_result[k].tag = "Ok"
              /\ call_result[k].val.digest = WritingCalls(log.calls)[k]
              /\ Validate(call_result[k].val, <<>>).result.tag = "Ok"

(***************************************************************************)
(* Merge after it has met the item an existing store cannot be read past   *)
(***************************************************************************)
\* The head of the reader is an item the reader fails at, and the loop body
\* has peeked it: MergeLoop peeks both heads on entry and the drain loops
\* peek again after every copy.
PeekedFailure(input) ==
    /\ pc \in {"m_drain_flat", "m_drain_data", "m_match"}
    /\ input # <<>>
    /\ Fails(Head(input))

\* C28: once Merge has peeked a parse or read failure at the head of an
\* existing store, no step writes a line to the output of that store.
C28_NoWriteAfterPeekedFailure ==
    [][/\ PeekedFailure(flat_input) =>
            flat_output'.underlying = flat_output.underlying
       /\ PeekedFailure(data_input) =>
            data_output'.underlying = data_output.underlying
      ]_vars

(***************************************************************************)
(* ValidatingImporter (wbm/src/cas/import.rs): it keeps one sha1::Sha1 for *)
(* all the files its Importer yields.  importer is the files the Importer  *)
(* has yet to yield and the bytes fed to the hasher since its last reset;  *)
(* call_result is what next() has returned so far.  A file is the digest   *)
(* its name encodes and the reader std::fs::File::open gives for it.       *)
(***************************************************************************)
\* The most files the importer yields.
MaxFiles == 2

\* Files named by the SHA-1 of their bytes; reading some of them fails.
NamedFiles == {[digest |-> Sha1(Concat(r.chunks)), input |-> r] : r \in Readers}

\* std::io::copy(input, hasher): the hasher after the copy, and whether the
\* copy failed.
IoCopy(input, h) ==
    [hasher |-> HasherUpdate(h, Concat(input.chunks)), failed |-> input.fails]

\* digest_bytes(input, hasher) after the copy: `?` returns the read error,
\* else the hasher is finalized and reset.
DigestBytesCopied(copied) ==
    IF copied.failed THEN [result |-> Err("Io"), hasher |-> copied.hasher]
    ELSE [result |-> Ok(HasherFinalizeReset(copied.hasher).digest),
          hasher |-> HasherFinalizeReset(copied.hasher).hasher]

\* fn digest_bytes
DigestBytes(input, h) == DigestBytesCopied(IoCopy(input, h))

\* The item next() makes of a File::Valid whose bytes were digested.
Validating(file, computed) ==
    [item |-> IF computed.result.tag = "Err" THEN Err("Io")
              ELSE IF computed.result.val = file.digest THEN Ok(file.digest)
              ELSE Err("InvalidDigest"),
     hasher |-> computed.hasher]

\* ValidatingImporter::next for a file the Importer yielded.
ValidatingFile(file, h) == Validating(file, DigestBytes(file.input, h))

ValidatingInit ==
    /\ ProgramIdle
    /\ pc = "validating"
    /\ call_input \in UNION {[1..n -> NamedFiles] : n \in 1..MaxFiles}
    /\ call_result = <<>> /\ computer = <<>> /\ threads = <<>>
    /\ importer = [underlying |-> call_input, hasher |-> <<>>]
    /\ part_iter = None

\* importer.next(), until the underlying Importer is at its end
ValidatingNext ==
    /\ pc = "validating"
    /\ importer.underlying # <<>>
    /\ \E v \in {ValidatingFile(Head(importer.underlying), importer.hasher)} :
            /\ importer' = [underlying |-> Tail(importer.underlying),
                            hasher |-> v.hasher]
            /\ call_result' = Append(call_result, v.item)
    /\ ProgramUnchanged
    /\ UNCHANGED <<pc, call_input, computer, threads, part_iter>>

HashReuseInit == Sha1Init \/ ValidatingInit

HashReuseNext == (pc = "sha1" /\ Sha1Next) \/ ValidatingNext

SpecHashReuse == HashReuseInit /\ [][HashReuseNext]_vars

\* C29: a call of digest_bytes on a Sha1Computer some other call of which
\* failed returns the SHA-1 of its own input; and a ValidatingImporter whose
\* files all carry the digest of their bytes never reports InvalidDigest,
\* whichever of the files before failed to read.
C29_FailureLeavesHasherClean ==
    /\ pc = "sha1" =>
          \A t, u \in Threads :
              (/\ threads[t].pc = "done" /\ threads[t].output[1].tag = "Ok"
               /\ threads[u].pc = "done" /\ threads[u].output[1].tag = "Err")
              => threads[t].output[1].val = Sha1(Concat(threads[t].input.chunks))
    /\ pc = "validating" =>
          \A k \in 1..Len(call_result) :
              call_result[k].tag = "Err" => call_result[k].val = "Io"

(***************************************************************************)
(* Importer over a directory tree that is read without an I/O error, with  *)
(* next() called again after it has returned None                          *)
(***************************************************************************)
\* Directories of files only.
FileDirs == UNION {[1..n -> {FileEntry}] : n \in 0..MaxEntries}

\* Directories with a directory inside.
NestedDirs ==
    {<<DirEntry(<<>>, TRUE)>>, <<DirEntry(<<FileEntry>>, TRUE), FileEntry>>}

\* The walk roots: every directory opens and no entry is an error.
TreeRoots ==
    {DirEntry(entries, TRUE) :
        entries \in UNION {[1..n -> {FileEntry} \cup
                                {DirEntry(d, TRUE) : d \in FileDirs \cup NestedDirs}] :
                            n \in 0..MaxEntries}}

WalkTreeInit ==
    /\ ProgramIdle
    /\ pc = "walk_new"
    /\ call_input \in TreeRoots
    /\ call_result = <<>> /\ computer = <<>> /\ threads = <<>>
    /\ importer = <<>> /\ part_iter = <<>>

\* importer.next() once more, after it has returned None
WalkNextAfterNone ==
    /\ pc \in {"walked", "ended"}
    /\ \E r \in {ImporterNext(importer)} :
            /\ importer' = r.importer
            /\ IF r.item = None
               THEN pc' = "ended" /\ UNCHANGED call_result
               ELSE call_result' = Append(call_result, r.item[1]) /\ pc' = "walked"
    /\ ProgramUnchanged
    /\ UNCHANGED <<call_input, computer, threads, part_iter>>

WalkTreeNext == WalkNew \/ WalkNextCall \/ WalkNextAfterNone

\* The caller goes on calling next().
SpecWalkTree == WalkTreeInit /\ [][WalkTreeNext]_vars /\ WF_vars(WalkTreeNext)

\* The paths next() has yielded, in order.
YieldedPaths == <<>> \o [k \in 1..Len(call_result) |-> call_result[k].val.path]

\* C30: with no I/O error the walk of a finite tree ends; when next() has
\* returned None it has yielded every entry that is not a directory exactly
\* once, as Valid or Skipped, and no directory; and every later call returns
\* None again and yields nothing more.
C30_WalkTerminates ==
    /\ <>(pc = "ended")
    /\ [](pc \in {"walked", "ended"} =>
            /\ \A k \in 1..Len(call_result) :
                  /\ call_result[k].tag = "Ok"
                  /\ call_result[k].val.tag \in {"Valid", "Skipped"}
            /\ Range(YieldedPaths) = FilesUnder(<<>>, call_input.entries)
            /\ Len(call_result) = Cardinality(FilesUnder(<<>>, call_input.entries)))
    /\ [][(pc \in {"walked", "ended"}) =>
            (pc' = "ended" /\ call_result' = call_result)]_vars

\* A walk that went into a directory inside a directory, yielded the files
\* on the way, and was asked again after its end.
C30_Witness ==
    /\ pc = "ended"
    /\ Len(call_result) >= 3
    /\ \E k \in 1..Len(call_result) : Len(call_result[k].val.path) = 3

(***************************************************************************)
(* Surt::from_url (core/src/surt.rs).  The url crate is outside the        *)
(* repository: a URL is given as what Url::parse makes of it, its scheme,  *)
(* its host when that is a domain name, its port, its path and the pairs   *)
(* of its query (None when it has no query), with the letter case of the   *)
(* text it was parsed from; from_url lowercases the text before parsing.   *)
(***************************************************************************)
HTTP == <<"h", "t", "t", "p">>
HTTPS == <<"h", "t", "t", "p", "s">>
WWW == <<"w", "w", "w">>

Url(scheme, domain, port, path, query) ==
    [scheme |-> scheme, domain |-> domain, port |-> port, path |-> path,
     query |-> query]

LowercasePair(pair) == <<ToAsciiLowercase(pair[1]), ToAsciiLowercase(pair[2])>>

\* input.to_lowercase().parse()
LowercaseUrl(u) ==
    Url(ToAsciiLowercase(u.scheme),
        IF u.domain = None THEN None ELSE Some(ToAsciiLowercase(u.domain[1])),
        u.port, ToAsciiLowercase(u.path),
        IF u.query = None THEN None
        ELSE Some(<<>> \o [k \in 1..Len(u.query[1]) |-> LowercasePair(u.query[1][k])]))

\* str::replace(from, to)
RECURSIVE Replace(_, _, _)
Replace(s, from, to) ==
    IF Len(s) < Len(from) THEN s
    ELSE IF SubSeq(s, 1, Len(from)) = from
    THEN to \o Replace(SubSeq(s, Len(from) + 1, Len(s)), from, to)
    ELSE <<Head(s)>> \o Replace(Tail(s), from, to)

\* The replacements of decode_path, in the order they are applied.
PATH_REPLACEMENTS ==
    << <<<<"%", "2", "2">>, <<QUOTE>>>>, <<<<"%", "2", "a">>, <<"*">>>>,
       <<<<"%", "5", "c">>, <<BACKSLASH>>>>, <<<<"%", "3", "c">>, <<"<">>>>,
       <<<<"%", "3", "e">>, <<">">>>>, <<<<"%", "2", "7">>, <<"'">>>>,
       <<<<"%", "7", "b">>, <<"{">>>>, <<<<"%", "7", "d">>, <<"}">>>>,
       <<<<LF>>, <<"%", "0", "a">>>>, <<<<"/", "/">>, <<"/">>>> >>

\* The replacements of decode_query_value, in the order they are applied.
QUERY_REPLACEMENTS ==
    << <<<<"+">>, <<"%", "2", "0">>>>, <<<<" ">>, <<"+">>>>,
       <<<<LF>>, <<"%", "0", "a">>>>, <<<<"%", "5", "e">>, <<"^">>>> >>

RECURSIVE ReplaceEach(_, _)
ReplaceEach(s, replacements) ==
    IF replacements = <<>> THEN s
    ELSE ReplaceEach(Replace(s, Head(replacements)[1], Head(replacements)[2]),
                     Tail(replacements))

\* Surt::decode_path
DecodePath(value) == ReplaceEach(value, PATH_REPLACEMENTS)

\* Surt::decode_query_value
DecodeQueryValue(value) == ReplaceEach(value, QUERY_REPLACEMENTS)

\* The order of str on lowercase letters: a < b, byte by byte, a proper
\* prefix first.
RECURSIVE StrLess(_, _)
StrLess(a, b) ==
    IF b = <<>> THEN FALSE
    ELSE IF a = <<>> THEN TRUE
    ELSE IF Head(a) = Head(b) THEN StrLess(Tail(a), Tail(b))
    ELSE IndexOf(LOWERCASE, Head(a)) < IndexOf(LOWERCASE, Head(b))

\* query_pairs.sort_by_key(|(key, _)| key.clone()): a stable sort; pair goes
\* behind the pairs already sorted whose key is not greater.
RECURSIVE InsertByKey(_, _)
InsertByKey(sorted, pair) ==
    IF sorted = <<>> THEN <<pair>>
    ELSE IF StrLess(pair[1], Head(sorted)[1]) THEN <<pair>> \o sorted
    ELSE <<Head(sorted)>> \o InsertByKey(Tail(sorted), pair)

RECURSIVE SortByKey(_)
SortByKey(pairs) ==
    IF pairs = <<>> THEN <<>>
    ELSE InsertByKey(SortByKey(SubSeq(pairs, 1, Len(pairs) - 1)), pairs[Len(pairs)])

\* The for loop over the sorted pairs: '&' between pairs, the key, '=', and
\* the decoded value when it is not empty.
RECURSIVE PushPairs(_, _)
PushPairs(pairs, first) ==
    IF pairs = <<>> THEN <<>>
    ELSE (IF first THEN <<>> ELSE <<"&">>)
            \o Head(pairs)[1] \o <<"=">>
            \o (IF Head(pairs)[2] # <<>> THEN DecodeQueryValue(Head(pairs)[2]) ELSE <<>>)
            \o PushPairs(Tail(pairs), FALSE)

\* What from_url appends for the query.
PushQuery(query) ==
    IF query = None \/ query = Some(<<>>) THEN <<>>
    ELSE <<"?">> \o PushPairs(SortByKey(query[1]), TRUE)

\* The labels the for loop over domain_name.split('.').rev() keeps.
KeptParts(domain_name) ==
    SelectSeq(Reverse(Split(domain_name, ".")), LAMBDA part : part # WWW)

\* source.pop(): without its last character, if it has one.
Pop(s) == SubSeq(s, 1, Len(s) - 1)

\* if source.ends_with("/") { source.pop(); }
PopSlash(s) == IF s # <<>> /\ s[Len(s)] = "/" THEN Pop(s) ELSE s

\* The Surt from_url builds of the labels it kept: each label and a comma,
\* the last comma popped, ")", the decoded path, the query.
SurtOfParts(kept, path, query) ==
    [source |-> PopSlash(Pop(Concat([k \in 1..Len(kept) |-> kept[k] \o <<",">>]))
                            \o <<")">> \o DecodePath(path))
                    \o PushQuery(query),
     domain_name_part_lens |-> <<>> \o [k \in 1..Len(kept) |-> Len(kept[k])]]

\* The match on (url.scheme(), url.domain()) with its guard on url.port().
FromParsedUrl(url) ==
    IF url.scheme \in {HTTP, HTTPS} /\ url.domain # None /\ url.port = None
    THEN Ok(SurtOfParts(KeptParts(url.domain[1]), url.path, url.query))
    ELSE Err("UnexpectedUrl")

\* Surt::from_url
FromUrl(input) == FromParsedUrl(LowercaseUrl(input))

\* The most pairs a query of the model has.
MaxPairs == 2

UrlLabels == {WWW, <<"W", "w", "w">>, <<"a">>, <<"c", "o">>}

UrlDomains ==
    {Join(ls, ".") : ls \in UNION {[1..n -> UrlLabels] : n \in 1..MaxLabels}}

UrlPaths == {<<"/">>, <<"/", "P">>, <<"/", "p", "/">>}

UrlPairs == {<<k, v>> : k \in {<<"a">>, <<"b">>, <<"a", "b">>},
                        v \in {<<>>, <<"x">>, <<"y">>}}

UrlQueries ==
    {None} \cup {Some(q) : q \in UNION {[1..n -> UrlPairs] : n \in 0..MaxPairs}}

\* The URLs tried: every domain with each scheme, port and path and no
\* query, no domain, and every query on one domain.
FromUrlInputs ==
    {Url(s, d, p, path, None) :
        s \in {HTTP, <<"H", "t", "t", "p", "s">>, <<"f", "t", "p">>},
        d \in {None} \cup {Some(x) : x \in UrlDomains},
        p \in {None, Some(8080)}, path \in UrlPaths}
    \cup {Url(HTTPS, Some(<<"a", ".", "c", "o">>), None, <<"/", "p">>, q) :
            q \in UrlQueries}

FromUrlInit ==
    /\ ProgramIdle
    /\ pc = "from_url_call"
    /\ call_input \in FromUrlInputs
    /\ call_result = <<>> /\ computer = <<>> /\ threads = <<>> /\ importer = <<>>
    /\ part_iter = None

\* Surt::from_url(input)
FromUrlCall ==
    /\ pc = "from_url_call"
    /\ call_result' = FromUrl(call_input)
    /\ pc' = "from_url_done"
    /\ ProgramUnchanged
    /\ UNCHANGED <<call_input, computer, threads, importer, part_iter>>

FromUrlNext == FromUrlCall

SpecFromUrl == FromUrlInit /\ [][FromUrlNext]_vars

\* The URL is one from_url makes a key of: http or https, a domain name as
\* its host, no port.
Keyed(u) ==
    /\ ToAsciiLowercase(u.scheme) \in {HTTP, HTTPS}
    /\ u.domain # None
    /\ u.port = None

\* The lowercased labels of the host, without its first label when that is
\* www, in reverse order.
HostLabelsReversed(domain_name) ==
    Reverse(IF Head(Split(ToAsciiLowercase(domain_name), ".")) = WWW
            THEN Tail(Split(ToAsciiLowercase(domain_name), "."))
            ELSE Split(ToAsciiLowercase(domain_name), "."))

\* C23: the labels of the key from_url makes are the lowercased host's
\* labels in reverse order, minus a single leading www if the host starts
\* with one; a www label in any other position of the host is kept.
C23_OnlyLeadingWwwDropped ==
    (pc = "from_url_done" /\ Keyed(call_input)) =>
        /\ call_result.tag = "Ok"
        /\ SubSeq(call_result.val.source, 1,
                  IndexOf(call_result.val.source, ")") - 1)
              = Join(HostLabelsReversed(call_input.domain[1]), ",")
        /\ call_result.val.domain_name_part_lens
              = <<>> \o [k \in 1..Len(HostLabelsReversed(call_input.domain[1])) |->
                            Len(HostLabelsReversed(call_input.domain[1])[k])]

\* The pairs in the order a stable sort by key leaves them: keys never
\* descend, and pairs of one key keep their order.
StablySorted(pairs) ==
    LET order == CHOOSE p \in [1..Len(pairs) -> 1..Len(pairs)] :
                    /\ \A i, j \in 1..Len(pairs) : i # j => p[i] # p[j]
                    /\ \A i, j \in 1..Len(pairs) :
                          i < j => \/ StrLess(pairs[p[i]][1], pairs[p[j]][1])
                                   \/ /\ pairs[p[i]][1] = pairs[p[j]][1]
                                      /\ p[i] < p[j]
    IN  <<>> \o [k \in 1..Len(pairs) |-> pairs[order[k]]]

\* key=value, or the key alone when the value is empty.
RenderedPair(pair) ==
    IF pair[2] = <<>> THEN pair[1] ELSE pair[1] \o <<"=">> \o pair[2]

EndsWith(s, suffix) ==
    /\ Len(s) >= Len(suffix)
    /\ SubSeq(s, Len(s) - Len(suffix) + 1, Len(s)) = suffix

\* C24: for a URL with a query string the key ends with '?' and the pairs
\* sorted by key, pairs of equal keys in their original order, joined by
\* '&', each as key=value and a pair with an empty value as the key alone.
C24_QueryRendered ==
    (pc = "from_url_done" /\ Keyed(call_input)
        /\ call_input.query # None /\ call_input.query # Some(<<>>)) =>
        /\ call_result.tag = "Ok"
        /\ EndsWith(call_result.val.source,
                    <<"?">> \o Join(<<>> \o [k \in 1..Len(call_input.query[1]) |->
                                        RenderedPair(StablySorted(call_input.query[1])[k])],
                                    "&"))

=============================================================================
